---- MODULE Spec2Model ----
(***************************************************************************)
(* Crowdfunding console application (src/Python/crowdfunding_app).         *)
(*                                                                         *)
(* A Python str is a sequence of one-character strings, so that strip(),   *)
(* lower(), split('|') and the f-string that joins a record with '|' are   *)
(* computed character by character.  A text file is a record               *)
(* [exists, lines]; a line is the str between two newlines.                *)
(* None (the unset current_user_email) is the empty str: the only test the *)
(* code applies to the pointer is its truth value, which is false for both.*)
(*                                                                         *)
(* A handler is an operator from the module state s (the globals of        *)
(* data_storage.py and the two files) and the answers typed at its prompts *)
(* to [st, result, shown]: the state it leaves, the message it prints last *)
(* and the projects it lists.  The actions apply the handlers to the       *)
(* variables.                                                              *)
(*                                                                         *)
(* other is the memory (registries, pointer, position) of a second process *)
(* of the same program started in the same directory, which shares the two *)
(* files.  call is a function called on its own, outside a session: its    *)
(* name, its arguments and, once it has returned, what it returned.        *)
(***************************************************************************)
EXTENDS Integers, Sequences, FiniteSets, TLC

VARIABLES users_data, projects_data, current_user_email,
          users_file, projects_file, pc, other, call

vars == <<users_data, projects_data, current_user_email,
          users_file, projects_file, pc, other, call>>

-----------------------------------------------------------------------------
(* str primitives *)

LowerLetters == <<"a","b","c","d","e","f","g","h","i","j","k","l","m",
                  "n","o","p","q","r","s","t","u","v","w","x","y","z">>
UpperLetters == <<"A","B","C","D","E","F","G","H","I","J","K","L","M",
                  "N","O","P","Q","R","S","T","U","V","W","X","Y","Z">>
DigitChars == <<"0","1","2","3","4","5","6","7","8","9">>

Range(s) == {s[i] : i \in DOMAIN s}

LowerSet == Range(LowerLetters)
UpperSet == Range(UpperLetters)
DigitSet == Range(DigitChars)
SpaceSet == {" ", "\t"}

IsLower(c) == c \in LowerSet
IsUpper(c) == c \in UpperSet
isalpha(c) == IsLower(c) \/ IsUpper(c)
isdigit(c) == c \in DigitSet
isspace(c) == c \in SpaceSet

LowerChar(c) ==
    IF IsUpper(c)
    THEN LowerLetters[CHOOSE i \in DOMAIN UpperLetters : UpperLetters[i] = c]
    ELSE c

\* str.lower()
lower(s) == [i \in DOMAIN s |-> LowerChar(s[i])]

RECURSIVE lstrip(_)
lstrip(s) == IF s # <<>> /\ isspace(Head(s)) THEN lstrip(Tail(s)) ELSE s

RECURSIVE rstrip(_)
rstrip(s) ==
    IF s # <<>> /\ isspace(s[Len(s)]) THEN rstrip(SubSeq(s, 1, Len(s) - 1)) ELSE s

\* str.strip()
strip(s) == rstrip(lstrip(s))

\* the first position at or after from that holds sep, 0 if there is none
RECURSIVE find(_, _, _)
find(s, sep, from) ==
    IF from > Len(s) THEN 0
    ELSE IF s[from] = sep THEN from
    ELSE find(s, sep, from + 1)

\* str.split(sep) for a one-character separator: always at least one part
RECURSIVE split(_, _)
split(s, sep) ==
    LET i == find(s, sep, 1)
    IN  IF i = 0 THEN <<s>>
        ELSE <<SubSeq(s, 1, i - 1)>> \o split(SubSeq(s, i + 1, Len(s)), sep)

\* the f-string "{a}|{b}|...": the fields with '|' between them
RECURSIVE join(_, _)
join(fields, sep) ==
    IF fields = <<>> THEN <<>>
    ELSE IF Len(fields) = 1 THEN fields[1]
    ELSE fields[1] \o <<sep>> \o join(Tail(fields), sep)

\* the digits of a natural number, and back
DigitOf(n) == DigitChars[n + 1]
ValueOf(c) == (CHOOSE i \in DOMAIN DigitChars : DigitChars[i] = c) - 1

RECURSIVE NatStr(_)
NatStr(n) == IF n < 10 THEN <<DigitOf(n)>> ELSE NatStr(n \div 10) \o <<DigitOf(n % 10)>>

RECURSIVE StrNat(_)
StrNat(s) == IF s = <<>> THEN 0 ELSE 10 * StrNat(SubSeq(s, 1, Len(s) - 1)) + ValueOf(s[Len(s)])

AllDigits(s) == \A i \in DOMAIN s : isdigit(s[i])

-----------------------------------------------------------------------------
(* float: the values float() can return for the modelled literals.         *)
(* A finite float is [k |-> "fin", v |-> n] for the integral value n.0     *)
(* (literals with a non-zero fraction or an exponent are outside the       *)
(* modelled domain and are never entered); nan is [k |-> "nan", v |-> 0];  *)
(* +inf and -inf are [k |-> "inf", v |-> 1] and [k |-> "inf", v |-> -1].   *)

Fin(n) == [k |-> "fin", v |-> n]
NaN == [k |-> "nan", v |-> 0]
Inf(sign) == [k |-> "inf", v |-> sign]

\* float(s): [ok |-> FALSE] stands for ValueError
ParseFloat(s) ==
    LET t    == strip(s)
        neg  == t # <<>> /\ Head(t) = "-"
        body == IF t # <<>> /\ Head(t) \in {"+", "-"} THEN Tail(t) ELSE t
        low  == lower(body)
        dot  == IF \E i \in DOMAIN body : body[i] = "."
                THEN CHOOSE i \in DOMAIN body : body[i] = "." /\ \A j \in 1..(i-1) : body[j] # "."
                ELSE Len(body) + 1
        ip   == SubSeq(body, 1, dot - 1)
        fp   == SubSeq(body, dot + 1, Len(body))
    IN  IF low = <<"n","a","n">> THEN [ok |-> TRUE, val |-> NaN]
        ELSE IF low = <<"i","n","f">> \/ low = <<"i","n","f","i","n","i","t","y">>
        THEN [ok |-> TRUE, val |-> Inf(IF neg THEN -1 ELSE 1)]
        ELSE IF ip # <<>> /\ AllDigits(ip) /\ \A i \in DOMAIN fp : fp[i] = "0"
        THEN [ok |-> TRUE, val |-> Fin(IF neg THEN 0 - StrNat(ip) ELSE StrNat(ip))]
        ELSE [ok |-> FALSE, val |-> NaN]

\* str(x) of a float, as the f-string formats it
FormatFloat(x) ==
    IF x.k = "nan" THEN <<"n","a","n">>
    ELSE IF x.k = "inf"
    THEN (IF x.v < 0 THEN <<"-">> ELSE <<>>) \o <<"i","n","f">>
    ELSE (IF x.v < 0 THEN <<"-">> \o NatStr(0 - x.v) ELSE NatStr(x.v)) \o <<".","0">>

\* x <= 0 and x > 0 on floats: every comparison with nan is False
FloatLE0(x) == x.k # "nan" /\ x.v <= 0
FloatGT0(x) == x.k # "nan" /\ x.v > 0
\* x == y on two float objects that are not the same object
FloatEq(x, y) == x.k # "nan" /\ y.k # "nan" /\ x = y

-----------------------------------------------------------------------------
(* datetime *)

IsLeap(y) == (y % 4 = 0 /\ y % 100 # 0) \/ y % 400 = 0
DaysInMonth(y, m) ==
    IF m = 2 THEN (IF IsLeap(y) THEN 29 ELSE 28)
    ELSE IF m \in {4, 6, 9, 11} THEN 30 ELSE 31

\* datetime.strptime(s, '%Y-%m-%d'): %Y is four digits, %m and %d one or two
\* digits (%d also a space and a digit); [ok |-> FALSE] stands for ValueError.
\* day is the date as the number yyyymmdd, which orders dates as datetime does.
ParseDate(s) ==
    LET parts == split(s, "-")
        ys == parts[1]
        ms == parts[2]
        ds == IF Len(parts[3]) = 2 /\ parts[3][1] = " " THEN Tail(parts[3]) ELSE parts[3]
        shape == /\ Len(parts) = 3
                 /\ Len(ys) = 4 /\ AllDigits(ys)
                 /\ Len(ms) \in {1, 2} /\ AllDigits(ms)
                 /\ Len(ds) \in {1, 2} /\ AllDigits(ds)
                 /\ (Len(ds) = 2 => Len(parts[3]) = 2)
        y == StrNat(ys)
        m == StrNat(ms)
        d == StrNat(ds)
    IN  IF shape /\ y >= 1 /\ m \in 1..12 /\ d \in 1..DaysInMonth(y, m)
        THEN [ok |-> TRUE, day |-> y * 10000 + m * 100 + d]
        ELSE [ok |-> FALSE, day |-> 0]

Pad(n, width) ==
    LET d == NatStr(n) IN [i \in 1..(width - Len(d)) |-> "0"] \o d

\* datetime.isoformat() of [day |-> yyyymmdd, hour |-> h] (minutes and below zero)
isoformat(now) ==
    Pad(now.day \div 10000, 4) \o <<"-">> \o Pad((now.day \div 100) % 100, 2) \o <<"-">>
      \o Pad(now.day % 100, 2) \o <<"T">> \o Pad(now.hour, 2) \o <<":","0","0",":","0","0">>

-----------------------------------------------------------------------------
(* validation.py *)

\* validate_egyptian_phone with patterns that do not end in $: re.match
\* anchors the start only, so anything may follow the number
validate_egyptian_phone_prefix_match(phone) ==
    LET p == SelectSeq(phone, LAMBDA c : c \notin {" ", "\t", "-", "(", ")"})
    IN  \E pre \in {<<>>, <<"+","2","0">>, <<"0","0","2","0">>, <<"2","0">>} :
          \E n \in {10, 11} :
             /\ Len(p) >= Len(pre) + n
             /\ SubSeq(p, 1, Len(pre)) = pre
             /\ LET r == SubSeq(p, Len(pre) + 1, Len(pre) + n)
                IN  /\ \A i \in DOMAIN r : r[i] \in {"0","1","2","3","4","5","6","7","8","9"}
                    /\ r[1] = "0"
                    /\ IF n = 11 THEN r[2] = "1" /\ r[3] \in {"0","1","2","5"}
                                 ELSE r[2] = "2"

\* line 9: re.sub(r'[\s\-\(\)]', '', phone)
StripPhone(s) == SelectSeq(s, LAMBDA c : ~(isspace(c) \/ c \in {"-", "(", ")"}))

MobileShape(r) ==
    /\ Len(r) = 11 /\ r[1] = "0" /\ r[2] = "1" /\ r[3] \in {"0","1","2","5"}
    /\ \A i \in 4..11 : isdigit(r[i])
LandlineShape(r) ==
    /\ Len(r) = 10 /\ r[1] = "0" /\ r[2] = "2"
    /\ \A i \in 3..10 : isdigit(r[i])

CountryPrefixes == {<<>>, <<"+","2","0">>, <<"0","0","2","0">>, <<"2","0">>}

validate_egyptian_phone(phone) ==
    LET p == StripPhone(phone)
    IN  \E pre \in CountryPrefixes :
          /\ Len(p) >= Len(pre)
          /\ SubSeq(p, 1, Len(pre)) = pre
          /\ LET r == SubSeq(p, Len(pre) + 1, Len(p))
             IN  MobileShape(r) \/ LandlineShape(r)

EmailLocalChar(c) == isalpha(c) \/ isdigit(c) \/ c \in {".", "_", "%", "+", "-"}
EmailDomainChar(c) == isalpha(c) \/ isdigit(c) \/ c \in {".", "-"}

validate_email(email) ==
    \E at \in DOMAIN email, dot \in DOMAIN email :
      /\ email[at] = "@" /\ at > 1
      /\ \A i \in 1..(at - 1) : EmailLocalChar(email[i])
      /\ dot > at + 1 /\ email[dot] = "."
      /\ \A i \in (at + 1)..(dot - 1) : EmailDomainChar(email[i])
      /\ Len(email) - dot >= 2
      /\ \A i \in (dot + 1)..Len(email) : isalpha(email[i])

validate_date(date_str) == ParseDate(date_str).ok

validate_name(name) ==
    /\ name # <<>>
    /\ strip(name) # <<>>
    /\ \A i \in DOMAIN strip(name) : isalpha(strip(name)[i]) \/ isspace(strip(name)[i])

\* validate_date_range with the test of line 37 before that of line 34
validate_date_range_past_first(start_date, end_date, now) ==
    LET s == ParseDate(start_date)
        e == ParseDate(end_date)
    IN  IF ~(s.ok /\ e.ok) THEN [ok |-> FALSE, msg |-> "Invalid date format!"]
        ELSE IF s.day < now.day \/ (s.day = now.day /\ now.hour > 0)
        THEN [ok |-> FALSE, msg |-> "Start date cannot be in the past!"]
        ELSE IF s.day >= e.day
        THEN [ok |-> FALSE, msg |-> "End date must be after start date!"]
        ELSE [ok |-> TRUE, msg |-> ""]

\* now is the value of datetime.now() read inside the call
validate_date_range(start_date, end_date, now) ==
    LET s == ParseDate(start_date)
        e == ParseDate(end_date)
    IN  IF ~(s.ok /\ e.ok) THEN [ok |-> FALSE, msg |-> "Invalid date format!"]
        ELSE IF s.day >= e.day
        THEN [ok |-> FALSE, msg |-> "End date must be after start date!"]
        ELSE IF s.day < now.day \/ (s.day = now.day /\ now.hour > 0)
        THEN [ok |-> FALSE, msg |-> "Start date cannot be in the past!"]
        ELSE [ok |-> TRUE, msg |-> ""]

-----------------------------------------------------------------------------
(* data_storage.py *)

None == <<>>

\* a byte that is not valid UTF-8: reading a file that holds one raises
\* UnicodeDecodeError inside the try block of load_data
BadByte == "<ff>"

NoFile == [exists |-> FALSE, lines |-> <<>>]
FileOf(ls) == [exists |-> TRUE, lines |-> ls]

BoolStr(b) == IF b THEN <<"T","r","u","e">> ELSE <<"F","a","l","s","e">>

\* the dict users_data in insertion order: users_data[email] = user
DictSet(d, email, user) ==
    IF \E i \in DOMAIN d : d[i].email = email
    THEN [i \in DOMAIN d |-> IF d[i].email = email THEN user ELSE d[i]]
    ELSE Append(d, user)

HasKey(d, email) == \E i \in DOMAIN d : d[i].email = email
Lookup(d, email) == d[CHOOSE i \in DOMAIN d : d[i].email = email]

\* lines 23-32 with is_active read as parts[5] == 'true', without .lower()
UserOfParts_case_sensitive(parts) ==
    [first_name    |-> parts[2],
     last_name     |-> parts[3],
     email         |-> parts[1],
     password_hash |-> parts[4],
     mobile        |-> parts[5],
     is_active     |-> (parts[6] = <<"t","r","u","e">>),
     created_at    |-> parts[7]]

UserOfParts(parts) ==
    [first_name    |-> parts[2],
     last_name     |-> parts[3],
     email         |-> parts[1],
     password_hash |-> parts[4],
     mobile        |-> parts[5],
     is_active     |-> (lower(parts[6]) = <<"t","r","u","e">>),
     created_at    |-> parts[7]]

\* lines 45-54 with current_amount read from the third field
ProjectOfParts_amount_from_target(parts) ==
    [title          |-> parts[1],
     details        |-> parts[2],
     total_target   |-> ParseFloat(parts[3]).val,
     start_date     |-> parts[4],
     end_date       |-> parts[5],
     owner_email    |-> parts[6],
     created_at     |-> parts[7],
     current_amount |-> ParseFloat(parts[3]).val]

\* lines 45-54: the dict made of the 8 fields of a line
ProjectOfParts(parts) ==
    [title          |-> parts[1],
     details        |-> parts[2],
     total_target   |-> ParseFloat(parts[3]).val,
     start_date     |-> parts[4],
     end_date       |-> parts[5],
     owner_email    |-> parts[6],
     created_at     |-> parts[7],
     current_amount |-> ParseFloat(parts[8]).val]

Undecodable(lines) == \E i \in DOMAIN lines : BadByte \in Range(lines[i])

RECURSIVE LoadUserLines(_, _)
LoadUserLines(lines, acc) ==
    IF lines = <<>> THEN acc
    ELSE LET line  == strip(Head(lines))
             parts == split(line, "|")
         IN  LoadUserLines(Tail(lines),
                 IF line # <<>> /\ Len(parts) = 7
                 THEN DictSet(acc, parts[1], UserOfParts(parts))
                 ELSE acc)

\* lines 14-34: the users registry after load_data, given the one before
load_users(file, before) ==
    IF ~file.exists THEN before
    ELSE IF Undecodable(file.lines) THEN <<>>
    ELSE LoadUserLines(file.lines, <<>>)

ProjectLineRaises(l) ==
    LET line  == strip(l)
        parts == split(line, "|")
    IN  line # <<>> /\ Len(parts) = 8
        /\ (~ParseFloat(parts[3]).ok \/ ~ParseFloat(parts[8]).ok)

RECURSIVE LoadProjectLines(_, _)
LoadProjectLines(lines, acc) ==
    IF lines = <<>> THEN acc
    ELSE LET line  == strip(Head(lines))
             parts == split(line, "|")
         IN  LoadProjectLines(Tail(lines),
                 IF line # <<>> /\ Len(parts) = 8
                 THEN Append(acc, ProjectOfParts(parts))
                 ELSE acc)

\* lines 36-56 without the reset of line 56: the projects appended before the
\* line at which float() raises stay in the list
load_projects_partial(file, before) ==
    IF ~file.exists THEN before
    ELSE IF Undecodable(file.lines) THEN <<>>
    ELSE IF \E i \in DOMAIN file.lines : ProjectLineRaises(file.lines[i])
    THEN LoadProjectLines(
             SubSeq(file.lines, 1,
                    (CHOOSE i \in DOMAIN file.lines :
                       /\ ProjectLineRaises(file.lines[i])
                       /\ \A j \in 1..(i - 1) : ~ProjectLineRaises(file.lines[j])) - 1),
             <<>>)
    ELSE LoadProjectLines(file.lines, <<>>)

\* lines 36-56: the projects registry after load_data, given the one before
load_projects(file, before) ==
    IF ~file.exists THEN before
    ELSE IF Undecodable(file.lines) \/ \E i \in DOMAIN file.lines : ProjectLineRaises(file.lines[i])
    THEN <<>>
    ELSE LoadProjectLines(file.lines, <<>>)

UserLine(user) ==
    join(<<user.email, user.first_name, user.last_name, user.password_hash,
           user.mobile, BoolStr(user.is_active), user.created_at>>, "|")

ProjectLine(project) ==
    join(<<project.title, project.details, FormatFloat(project.total_target),
           project.start_date, project.end_date, project.owner_email,
           project.created_at, FormatFloat(project.current_amount)>>, "|")

\* save_data: the two files it leaves for the given registries
SavedUsers(users) == FileOf([i \in DOMAIN users |-> UserLine(users[i])])
SavedProjects(projects) == FileOf([i \in DOMAIN projects |-> ProjectLine(projects[i])])

\* save_data without lines 64-67: only the users file is written
save_data_users_only(s) == [s EXCEPT !.users_file = SavedUsers(s.users_data)]

\* save_data opening the files with mode 'a': the lines are added after
\* those the files hold
save_data_appending(s) ==
    [s EXCEPT !.users_file = FileOf(@.lines \o SavedUsers(s.users_data).lines),
              !.projects_file = FileOf(@.lines \o SavedProjects(s.projects_data).lines)]

\* save_data on the module state s
save_data(s) ==
    [s EXCEPT !.users_file = SavedUsers(s.users_data),
              !.projects_file = SavedProjects(s.projects_data)]

\* load_data on the module state s
load_data(s) ==
    [s EXCEPT !.users_data = load_users(s.users_file, s.users_data),
              !.projects_data = load_projects(s.projects_file, s.projects_data)]

\* get_current_user without the membership test of line 71, answering with
\* the first record of the registry
get_current_user_first(s) ==
    IF s.current_user_email # None /\ s.users_data # <<>>
    THEN <<s.users_data[1]>>
    ELSE None

\* Optional result: <<>> is None, <<user>> the user record
get_current_user(s) ==
    IF s.current_user_email # None /\ HasKey(s.users_data, s.current_user_email)
    THEN <<Lookup(s.users_data, s.current_user_email)>>
    ELSE None

set_current_user(s, email) == [s EXCEPT !.current_user_email = email]

\* clear_current_user without the assignment of line 81
clear_current_user_keeps(s) == s

clear_current_user(s) == [s EXCEPT !.current_user_email = None]

-----------------------------------------------------------------------------
(* user_auth.py *)

\* sha256(...).hexdigest() idealised as an injective encoding into digits:
\* two digits per character, so the digest holds no '|' and no whitespace
CharCode(c) ==
    IF IsLower(c) THEN CHOOSE i \in DOMAIN LowerLetters : LowerLetters[i] = c
    ELSE IF IsUpper(c) THEN 26 + (CHOOSE i \in DOMAIN UpperLetters : UpperLetters[i] = c)
    ELSE IF isdigit(c) THEN 53 + ValueOf(c)
    ELSE IF c = " " THEN 63
    ELSE IF c = "|" THEN 64
    ELSE 99

RECURSIVE hash_password(_)
hash_password(password) ==
    IF password = <<>> THEN <<>>
    ELSE Pad(CharCode(Head(password)), 2) \o hash_password(Tail(password))

\* verify_password comparing without regard to case
verify_password_caseless(stored_hash, password) ==
    stored_hash = hash_password(lower(password))

verify_password(stored_hash, password) == stored_hash = hash_password(password)

create_user(first_name, last_name, email, password, mobile, now) ==
    [first_name    |-> first_name,
     last_name     |-> last_name,
     email         |-> email,
     password_hash |-> hash_password(password),
     mobile        |-> mobile,
     is_active     |-> FALSE,
     created_at    |-> isoformat(now)]

-----------------------------------------------------------------------------
(* handler results *)

Res(st, result, shown) == [st |-> st, result |-> result, shown |-> shown]

\* an uncaught exception ends the process with a traceback
Crash(s, shown) == Res([s EXCEPT !.pc = "crashed"], "Traceback", shown)

-----------------------------------------------------------------------------
(* user_auth.py: the handlers.  in holds the answers to the prompts; an    *)
(* answer after the prompt at which the handler returns is never read.     *)

\* line 70 run for every record of the registry
SetActive_everyone(d, email) == [i \in DOMAIN d |-> [d[i] EXCEPT !.is_active = TRUE]]

\* line 70: users_data[email]['is_active'] = True
SetActive(d, email) ==
    [i \in DOMAIN d |-> IF d[i].email = email THEN [d[i] EXCEPT !.is_active = TRUE] ELSE d[i]]

\* lines 60-73 with the user logged in as soon as the account is activated
RegisterStore_logs_in(s, first_name, last_name, email, password, mobile, activate, now) ==
    LET user   == create_user(first_name, last_name, email, password, mobile, now)
        stored == save_data([s EXCEPT !.users_data = DictSet(s.users_data, email, user)])
    IN  IF lower(activate) = <<"y">>
        THEN Res(set_current_user(
                     save_data([stored EXCEPT !.users_data = SetActive(stored.users_data, email)]),
                     email),
                 "Account activated!", <<>>)
        ELSE Res(stored, "Registration successful!", <<>>)

\* lines 60-73
RegisterStore(s, first_name, last_name, email, password, mobile, activate, now) ==
    LET user   == create_user(first_name, last_name, email, password, mobile, now)
        stored == save_data([s EXCEPT !.users_data = DictSet(s.users_data, email, user)])
    IN  IF lower(activate) = <<"y">>
        THEN Res(save_data([stored EXCEPT !.users_data = SetActive(stored.users_data, email)]),
                 "Account activated!", <<>>)
        ELSE Res(stored, "Registration successful!", <<>>)

\* register_user without the duplicate test of line 41
EmailExists_never(s, email) == FALSE

\* the test of line 41
EmailExists(s, email) == HasKey(s.users_data, email)

register_user(s, in, now) ==
    LET first_name == strip(in.fn)
        last_name  == strip(in.ln)
        email      == lower(strip(in.em))
        password   == strip(in.pw)
        mobile     == strip(in.mb)
    IN  IF ~validate_name(first_name)
        THEN Res(s, "First name must contain only letters and spaces!", <<>>)
        ELSE IF ~validate_name(last_name)
        THEN Res(s, "Last name must contain only letters and spaces!", <<>>)
        ELSE IF ~validate_email(email)
        THEN Res(s, "Invalid email format!", <<>>)
        ELSE IF EmailExists(s, email)
        THEN Res(s, "Email already exists!", <<>>)
        ELSE IF Len(password) < 6
        THEN Res(s, "Password must be at least 6 characters!", <<>>)
        ELSE IF password # strip(in.cf)
        THEN Res(s, "Passwords don't match!", <<>>)
        ELSE IF ~validate_egyptian_phone(mobile)
        THEN Res(s, "Invalid Egyptian phone number format!", <<>>)
        ELSE RegisterStore(s, first_name, last_name, email, password, mobile, in.act, now)

\* login_user without the test of line 87
login_user_any_account(s, em, pw) ==
    LET email    == lower(strip(em))
        password == strip(pw)
    IN  IF ~HasKey(s.users_data, email)
        THEN Res(s, "Email not found!", <<>>)
        ELSE IF ~verify_password(Lookup(s.users_data, email).password_hash, password)
        THEN Res(s, "Invalid password!", <<>>)
        ELSE Res(set_current_user(s, email), "Welcome", <<>>)

\* login_user storing the email as it was typed (line 91 with the input
\* of line 78 before .strip().lower())
login_user_as_typed(s, em, pw) ==
    LET email    == lower(strip(em))
        password == strip(pw)
    IN  IF ~HasKey(s.users_data, email)
        THEN Res(s, "Email not found!", <<>>)
        ELSE IF ~Lookup(s.users_data, email).is_active
        THEN Res(s, "Account not activated!", <<>>)
        ELSE IF ~verify_password(Lookup(s.users_data, email).password_hash, password)
        THEN Res(s, "Invalid password!", <<>>)
        ELSE Res(set_current_user(s, em), "Welcome", <<>>)

\* lines 75-97
login_user(s, em, pw) ==
    LET email    == lower(strip(em))
        password == strip(pw)
    IN  IF ~HasKey(s.users_data, email)
        THEN Res(s, "Email not found!", <<>>)
        ELSE IF ~Lookup(s.users_data, email).is_active
        THEN Res(s, "Account not activated!", <<>>)
        ELSE IF ~verify_password(Lookup(s.users_data, email).password_hash, password)
        THEN Res(s, "Invalid password!", <<>>)
        ELSE Res(set_current_user(s, email), "Welcome", <<>>)

logout_user(s) == Res(clear_current_user(s), "Logged out successfully!", <<>>)

-----------------------------------------------------------------------------
(* project_manager.py *)

\* int(s): [ok |-> FALSE] stands for ValueError
ParseInt(s) ==
    LET t    == strip(s)
        neg  == t # <<>> /\ Head(t) = "-"
        body == IF t # <<>> /\ Head(t) \in {"+", "-"} THEN Tail(t) ELSE t
    IN  IF body # <<>> /\ AllDigits(body)
        THEN [ok |-> TRUE, val |-> IF neg THEN 0 - StrNat(body) ELSE StrNat(body)]
        ELSE [ok |-> FALSE, val |-> 0]

create_project_data(title, details, total_target, start_date, end_date, owner_email, now) ==
    [title          |-> title,
     details        |-> details,
     total_target   |-> total_target,
     start_date     |-> start_date,
     end_date       |-> end_date,
     owner_email    |-> owner_email,
     created_at     |-> isoformat(now),
     current_amount |-> Fin(0)]

\* the test of line 37 on the float entered
TargetRejected(total_target) == FloatLE0(total_target)

\* now is the clock read by validate_date_range, made the one read by
\* create_project_data
create_new_project(s, in, now, made) ==
    LET current_user == get_current_user(s)
        title        == strip(in.ti)
        details      == strip(in.de)
        total_target == ParseFloat(in.ta)
        start_date   == strip(in.sd)
        end_date     == strip(in.ed)
        range        == validate_date_range(start_date, end_date, now)
    IN  IF current_user = None THEN Res(s, "Please login first!", <<>>)
        ELSE IF title = <<>> THEN Res(s, "Title cannot be empty!", <<>>)
        ELSE IF details = <<>> THEN Res(s, "Details cannot be empty!", <<>>)
        ELSE IF ~total_target.ok THEN Res(s, "Invalid target amount!", <<>>)
        ELSE IF TargetRejected(total_target.val) THEN Res(s, "Target must be positive!", <<>>)
        ELSE IF ~validate_date(start_date) THEN Res(s, "Invalid start date format!", <<>>)
        ELSE IF ~validate_date(end_date) THEN Res(s, "Invalid end date format!", <<>>)
        ELSE IF ~range.ok THEN Res(s, range.msg, <<>>)
        ELSE Res(save_data([s EXCEPT !.projects_data =
                     Append(@, create_project_data(title, details, total_target.val,
                                   start_date, end_date, current_user[1].email, made))]),
                 "Project created successfully!", <<>>)

\* current_amount / total_target raises ZeroDivisionError
ProgressRaises(project) == project.total_target = Fin(0)

\* the projects printed before the first one whose progress cannot be computed
PrintedOf(projects) ==
    IF \E i \in DOMAIN projects : ProgressRaises(projects[i])
    THEN SubSeq(projects, 1, (CHOOSE i \in DOMAIN projects :
                    ProgressRaises(projects[i])
                    /\ \A j \in 1..(i - 1) : ~ProgressRaises(projects[j])) - 1)
    ELSE projects

PrintProjects(s, header, projects) ==
    IF \E i \in DOMAIN projects : ProgressRaises(projects[i])
    THEN Crash(s, PrintedOf(projects))
    ELSE Res(s, header, projects)

view_all_projects(s) ==
    IF s.projects_data = <<>> THEN Res(s, "No projects available.", <<>>)
    ELSE PrintProjects(s, "ALL PROJECTS", s.projects_data)

\* get_user_projects without the filter of line 83
OwnedIdx_everyone(s, email) == [i \in DOMAIN s.projects_data |-> i]

\* the positions in projects_data of the list get_user_projects(email) returns:
\* the list holds the same dict objects, in the same order
OwnedIdx(s, email) ==
    SelectSeq([i \in DOMAIN s.projects_data |-> i],
              LAMBDA i : s.projects_data[i].owner_email = email)

get_user_projects(s, email) ==
    LET owned == OwnedIdx(s, email) IN [k \in DOMAIN owned |-> s.projects_data[owned[k]]]

view_my_projects(s) ==
    LET current_user == get_current_user(s) IN
    IF current_user = None THEN Res(s, "Please login first!", <<>>)
    ELSE LET my_projects == get_user_projects(s, current_user[1].email) IN
         IF my_projects = <<>>
         THEN Res(s, "You haven't created any projects yet.", <<>>)
         ELSE PrintProjects(s, "MY PROJECTS", my_projects)

\* lines 138-155 without the test of line 139: the title is assigned whatever
\* was typed
EditedProject_title_always(project, form) ==
    LET new_details == strip(form[2])
        new_target  == strip(form[3])
        p1 == [project EXCEPT !.title = strip(form[1])]
        p2 == IF new_details # <<>> THEN [p1 EXCEPT !.details = new_details] ELSE p1
    IN  IF new_target # <<>> /\ ParseFloat(new_target).ok
               /\ FloatGT0(ParseFloat(new_target).val)
        THEN [p2 EXCEPT !.total_target = ParseFloat(new_target).val]
        ELSE p2

\* lines 138-155: the selected dict after the three prompts
EditedProject(project, form) ==
    LET new_title   == strip(form[1])
        new_details == strip(form[2])
        new_target  == strip(form[3])
        p1 == IF new_title # <<>> THEN [project EXCEPT !.title = new_title] ELSE project
        p2 == IF new_details # <<>> THEN [p1 EXCEPT !.details = new_details] ELSE p1
    IN  IF new_target # <<>> /\ ParseFloat(new_target).ok
               /\ FloatGT0(ParseFloat(new_target).val)
        THEN [p2 EXCEPT !.total_target = ParseFloat(new_target).val]
        ELSE p2

edit_user_project(s, sel, form) ==
    LET current_user == get_current_user(s) IN
    IF current_user = None THEN Res(s, "Please login first!", <<>>)
    ELSE LET owned       == OwnedIdx(s, current_user[1].email)
             my_projects == get_user_projects(s, current_user[1].email)
             choice      == ParseInt(sel).val - 1
         IN  IF my_projects = <<>> THEN Res(s, "You have no projects to edit!", <<>>)
             ELSE IF ~ParseInt(sel).ok THEN Res(s, "Invalid input!", my_projects)
             ELSE IF choice < 0 \/ choice >= Len(my_projects)
             THEN Res(s, "Invalid selection!", my_projects)
             ELSE Res(save_data([s EXCEPT !.projects_data[owned[choice + 1]] =
                                     EditedProject(my_projects[choice + 1], form)]),
                      "Project updated successfully!", my_projects)

\* dict == dict on two different project dicts: every value equal, where two
\* float objects that are nan are never equal
ProjectEq(p, q) ==
    /\ p.title = q.title /\ p.details = q.details
    /\ FloatEq(p.total_target, q.total_target)
    /\ p.start_date = q.start_date /\ p.end_date = q.end_date
    /\ p.owner_email = q.owner_email /\ p.created_at = q.created_at
    /\ FloatEq(p.current_amount, q.current_amount)

\* list.remove(x) where x is the object at position at: the first position
\* holding x itself or a dict equal to it
RemovedIndex(projects, at) ==
    CHOOSE i \in 1..at :
      /\ (i = at \/ ProjectEq(projects[i], projects[at]))
      /\ \A j \in 1..(i - 1) : ~ProjectEq(projects[j], projects[at])

RemoveAt(seq, i) == SubSeq(seq, 1, i - 1) \o SubSeq(seq, i + 1, Len(seq))

\* line 190 taking every answer but n for a yes
Confirmed_unless_no(confirm) == lower(confirm) # <<"n">>

\* the test of line 190 on the answer to "Are you sure ...? (y/N)"
Confirmed(confirm) == lower(confirm) = <<"y">>

delete_user_project(s, sel, confirm) ==
    LET current_user == get_current_user(s) IN
    IF current_user = None THEN Res(s, "Please login first!", <<>>)
    ELSE LET owned       == OwnedIdx(s, current_user[1].email)
             my_projects == get_user_projects(s, current_user[1].email)
             choice      == ParseInt(sel).val - 1
         IN  IF my_projects = <<>> THEN Res(s, "You have no projects to delete!", <<>>)
             ELSE IF ~ParseInt(sel).ok THEN Res(s, "Invalid input!", my_projects)
             ELSE IF choice < 0 \/ choice >= Len(my_projects)
             THEN Res(s, "Invalid selection!", my_projects)
             ELSE IF Confirmed(confirm)
             THEN Res(save_data([s EXCEPT !.projects_data =
                          RemoveAt(@, RemovedIndex(@, owned[choice + 1]))]),
                      "Project deleted successfully!", my_projects)
             ELSE Res(s, "Deletion cancelled.", my_projects)

\* lines 210-215
DateRaises(project) ==
    ~ParseDate(project.start_date).ok \/ ~ParseDate(project.end_date).ok

\* line 214 with the end of the interval excluded
Running_before_end(project, search_date) ==
    /\ ParseDate(project.start_date).day <= search_date
    /\ search_date < ParseDate(project.end_date).day

\* the test of line 214
Running(project, search_date) ==
    /\ ParseDate(project.start_date).day <= search_date
    /\ search_date <= ParseDate(project.end_date).day

search_projects_by_date(s, di) ==
    LET date_str == strip(di) IN
    IF ~validate_date(date_str) THEN Res(s, "Invalid date format!", <<>>)
    ELSE IF \E i \in DOMAIN s.projects_data : DateRaises(s.projects_data[i])
    THEN Crash(s, <<>>)
    ELSE LET search_date == ParseDate(date_str).day
             matching_projects ==
                 SelectSeq(s.projects_data, LAMBDA p : Running(p, search_date))
         IN  IF matching_projects = <<>> THEN Res(s, "No projects found", <<>>)
             ELSE PrintProjects(s, "Projects running on", matching_projects)

-----------------------------------------------------------------------------
(* What the operator types and what the clock reads.  For every prompt the *)
(* Inputs set holds an answer of each kind the code distinguishes; the     *)
(* properties range over these.  The Session sets are the answers that     *)
(* change the state, which the actions draw from.                          *)

EmailA == <<"a","@","x",".","i","o">>
EmailB == <<"b","@","x",".","i","o">>

YesNoInputs == {<<"Y">>, <<"y">>, <<"n">>, <<" ","y">>, <<>>}

GoodRegister(em, act) ==
    [fn |-> <<"A","l">>, ln |-> <<"B","o"," ">>, em |-> em,
     pw |-> <<"s","e","c","r","e","t"," ">>, cf |-> <<"s","e","c","r","e","t">>,
     mb |-> <<"0","1","0"," ","1","2","3","4","-","5","6","7","8">>, act |-> act]

SessionRegisters ==
    {GoodRegister(<<" ","A","@","x",".","i","o">>, <<"Y">>),
     GoodRegister(EmailB, <<"Y">>), GoodRegister(EmailB, <<"n">>)}

RegisterInputs ==
    {GoodRegister(em, act) : em \in {<<" ","A","@","x",".","i","o">>, EmailB},
                             act \in YesNoInputs}
    \cup {[GoodRegister(EmailA, <<"Y">>) EXCEPT !.fn = <<"R","2">>],
          [GoodRegister(EmailA, <<"Y">>) EXCEPT !.ln = <<>>],
          [GoodRegister(EmailA, <<"Y">>) EXCEPT !.em = <<"a","@","x">>],
          [GoodRegister(EmailA, <<"Y">>) EXCEPT !.pw = <<"s","h","o","r","t">>],
          [GoodRegister(EmailA, <<"Y">>) EXCEPT !.cf = <<"s","e","c","r","e","T">>],
          [GoodRegister(EmailA, <<"Y">>) EXCEPT !.mb = <<"1","2","3">>],
          [GoodRegister(EmailB, <<"n">>) EXCEPT !.fn = <<"E","v","e">>,
                                                !.pw = <<"h","u","n","t","e","r">>,
                                                !.cf = <<"h","u","n","t","e","r">>]}

SessionLogins == {<<EmailA, <<" ","s","e","c","r","e","t">>>>,
                  <<<<"B","@","x",".","i","o"," ">>, <<"s","e","c","r","e","t">>>>,
                  <<<<"c","@","x",".","i","o">>, <<"s","e","c","r","e","t">>>>}

LoginEmailInputs == {EmailA, <<"B","@","x",".","i","o"," ">>, <<"c","@","x",".","i","o">>}
LoginPasswordInputs == {<<" ","s","e","c","r","e","t">>, <<"S","e","c","r","e","t">>}

\* datetime.now(): the wall clock, read anew at every call
SessionClock == {[day |-> 20300101, hour |-> 12]}
Clock == {[day |-> 20300101, hour |-> 0], [day |-> 20300101, hour |-> 12],
          [day |-> 20300104, hour |-> 9]}

Day1 == <<"2","0","3","0","-","0","1","-","0","1">>
Day2 == <<"2","0","3","0","-","0","1","-","0","2">>
Day3 == <<"2","0","3","0","-","1","-","3">>
Day4 == <<"2","0","3","0","-","0","1","-","0","4">>

Day5 == <<"2","0","3","0","-","0","1","-","0","5">>

GoodCreate(ta) ==
    [ti |-> <<" ","t">>, de |-> <<"d">>, ta |-> ta, sd |-> Day2, ed |-> Day3]

SessionCreates == {GoodCreate(<<"5">>), [GoodCreate(<<"n","a","n">>) EXCEPT !.ed = Day4]}

CreateInputs ==
    {GoodCreate(<<"5">>), GoodCreate(<<"n","a","n">>), GoodCreate(<<" ","i","n","f">>),
     [GoodCreate(<<"n","a","n">>) EXCEPT !.ed = Day4],
     [GoodCreate(<<"5">>) EXCEPT !.ti = <<" ">>],
     [GoodCreate(<<"5">>) EXCEPT !.ti = <<"a","|","b">>],
     [GoodCreate(<<"5">>) EXCEPT !.de = <<>>],
     [GoodCreate(<<"5">>) EXCEPT !.ta = <<"0">>],
     [GoodCreate(<<"5">>) EXCEPT !.ta = <<"-","3">>],
     [GoodCreate(<<"5">>) EXCEPT !.ta = <<"x">>],
     [GoodCreate(<<"5">>) EXCEPT !.ta = <<>>],
     [GoodCreate(<<"5">>) EXCEPT !.sd = <<"s","o","o","n">>],
     [GoodCreate(<<"5">>) EXCEPT !.ed = <<"2","0","3","0","-","0","2","-","3","0">>],
     [GoodCreate(<<"5">>) EXCEPT !.ed = Day2],
     [GoodCreate(<<"5">>) EXCEPT !.ed = Day1],
     [GoodCreate(<<"5">>) EXCEPT !.sd = Day1]}

\* the answers to the three prompts of an edit: title, details, target
SessionEdits == {<<<<"a","|","b"," ">>, <<"e">>, <<"7">>>>}

EditInputs ==
    {<<<<>>, <<>>, <<>>>>,
     <<<<"a","|","b"," ">>, <<"e">>, <<"7">>>>,
     <<<<"u"," ">>, <<>>, <<>>>>,
     <<<<>>, <<"e">>, <<>>>>,
     <<<<>>, <<>>, <<"7">>>>,
     <<<<" ">>, <<" ">>, <<"0">>>>,
     <<<<>>, <<>>, <<"-","3">>>>,
     <<<<>>, <<>>, <<"x">>>>,
     <<<<>>, <<>>, <<"n","a","n">>>>}

MaxProjects == 2

SessionSelects == {NatStr(k) : k \in 1..MaxProjects} \cup {<<"x">>}

SelectInputs == {NatStr(k) : k \in 0..(MaxProjects + 1)} \cup {<<"x">>, <<>>, <<"-","1">>}

SessionSearches == {Day2, <<"t","o","d","a","y">>}

SearchInputs == {Day1, Day2, <<" ","2","0","3","0","-","0","1","-","0","3">>, Day4, Day5,
                 <<"t","o","d","a","y">>}

MenuInputs == {<<"0">>, <<"1">>, <<" ","2">>, <<"3">>, <<"4">>, <<"5">>, <<"6">>,
               <<"7">>, <<"9">>}

-----------------------------------------------------------------------------
(* crowdfunding_app.py *)

\* a process that has not been started: the module globals of lines 4-6
NotRunning ==
    [users_data |-> <<>>, projects_data |-> <<>>, current_user_email |-> None,
     pc |-> "start"]

\* no function is being called on its own
NoCall == [fn |-> "", args |-> <<>>, out |-> <<>>]

\* the module state held by the variables
cur ==
    [users_data |-> users_data, projects_data |-> projects_data,
     current_user_email |-> current_user_email,
     users_file |-> users_file, projects_file |-> projects_file, pc |-> pc]

Apply(r) ==
    /\ users_data' = r.st.users_data
    /\ projects_data' = r.st.projects_data
    /\ current_user_email' = r.st.current_user_email
    /\ users_file' = r.st.users_file
    /\ projects_file' = r.st.projects_file
    /\ pc' = r.st.pc
    /\ UNCHANGED <<other, call>>

\* the loop ends and so does the process: the registries and the pointer of
\* a process started afterwards are those of lines 4-6
Exit ==
    /\ pc' = "start"
    /\ users_data' = <<>> /\ projects_data' = <<>> /\ current_user_email' = None
    /\ UNCHANGED <<users_file, projects_file, other, call>>

\* a turn in which the guest menu is shown whoever is logged in
GuestTurn_always(choice) ==
    /\ pc = "menu"
    /\ \E ch \in MenuInputs : strip(ch) = choice

\* main, lines 70-82: one turn of the menu loop in which the operator types
\* choice; the guest menu is shown when get_current_user() is None
GuestTurn(choice) ==
    /\ pc = "menu"
    /\ get_current_user(cur) = None
    /\ \E ch \in MenuInputs : strip(ch) = choice

UserTurn(choice) ==
    /\ pc = "menu"
    /\ get_current_user(cur) # None
    /\ \E ch \in MenuInputs : strip(ch) = choice

guest_register ==
    /\ GuestTurn(<<"1">>)
    /\ \E in \in SessionRegisters, now \in SessionClock : Apply(register_user(cur, in, now))

guest_login ==
    /\ GuestTurn(<<"2">>)
    /\ \E in \in SessionLogins : Apply(login_user(cur, in[1], in[2]))

guest_view_all == GuestTurn(<<"3">>) /\ Apply(view_all_projects(cur))

guest_search ==
    /\ GuestTurn(<<"4">>)
    /\ \E di \in SessionSearches : Apply(search_projects_by_date(cur, di))

guest_exit == GuestTurn(<<"0">>) /\ Exit

guest_invalid ==
    /\ \E ch \in MenuInputs :
         /\ strip(ch) \notin {<<"0">>, <<"1">>, <<"2">>, <<"3">>, <<"4">>}
         /\ GuestTurn(strip(ch))
    /\ UNCHANGED vars

handle_guest_menu ==
    \/ guest_register
    \/ guest_login
    \/ guest_view_all
    \/ guest_search
    \/ guest_exit
    \/ guest_invalid

\* MaxProjects caps the list so that the state space is finite
user_create ==
    /\ UserTurn(<<"1">>)
    /\ Len(projects_data) < MaxProjects
    /\ \E in \in SessionCreates, now \in SessionClock, made \in SessionClock :
         Apply(create_new_project(cur, in, now, made))

user_view_all == UserTurn(<<"2">>) /\ Apply(view_all_projects(cur))

user_view_mine == UserTurn(<<"3">>) /\ Apply(view_my_projects(cur))

user_edit ==
    /\ UserTurn(<<"4">>)
    /\ \E sel \in SessionSelects, form \in SessionEdits : Apply(edit_user_project(cur, sel, form))

user_delete ==
    /\ UserTurn(<<"5">>)
    /\ \E sel \in SessionSelects, confirm \in {<<"Y">>, <<"n">>} :
         Apply(delete_user_project(cur, sel, confirm))

user_search ==
    /\ UserTurn(<<"6">>)
    /\ \E di \in SessionSearches : Apply(search_projects_by_date(cur, di))

user_logout == UserTurn(<<"7">>) /\ Apply(logout_user(cur))

user_exit == UserTurn(<<"0">>) /\ Exit

user_invalid ==
    /\ \E ch \in MenuInputs :
         /\ strip(ch) \notin {<<"0">>, <<"1">>, <<"2">>, <<"3">>, <<"4">>, <<"5">>, <<"6">>, <<"7">>}
         /\ UserTurn(strip(ch))
    /\ UNCHANGED vars

handle_user_menu ==
    \/ user_create
    \/ user_view_all
    \/ user_view_mine
    \/ user_edit
    \/ user_delete
    \/ user_search
    \/ user_logout
    \/ user_exit
    \/ user_invalid

\* main, line 66: a process starts (for the first time, or again after the
\* last one ended) and loads the files
main_start ==
    /\ pc \in {"start", "crashed"}
    /\ Apply(Res([load_data([cur EXCEPT !.users_data = <<>>, !.projects_data = <<>>,
                                        !.current_user_email = None])
                    EXCEPT !.pc = "menu"], "Welcome", <<>>))

Init ==
    /\ users_data = <<>>
    /\ projects_data = <<>>
    /\ current_user_email = None
    /\ users_file = NoFile
    /\ projects_file = NoFile
    /\ pc = "start"
    /\ other = NotRunning
    /\ call = NoCall

Next == main_start \/ handle_guest_menu \/ handle_user_menu

Spec == Init /\ [][Next]_vars

-----------------------------------------------------------------------------
(* A process started on files it did not write: users.txt and projects.txt *)
(* are absent or hold up to MaxLines lines, each one of the samples.       *)

MaxLines == 2

UserFields ==
    <<EmailA, <<"A","l">>, <<"B","o">>, <<"1","5">>, <<"0","1","0">>,
      <<"T","r","u","e">>, <<"t","1">>>>

ProjectFields ==
    <<<<"t">>, <<"d">>, <<"5",".","0">>, Day2, Day4, EmailA, <<"t","1">>, <<"0",".","0">>>>

\* a well-formed line between blanks; a second line for the same email, not
\* active; a line of 6 fields; a line of 8 fields; a line that cannot be decoded
UserLineSamples ==
    {<<" ">> \o join(UserFields, "|") \o <<" ">>,
     join([UserFields EXCEPT ![2] = <<"E","v","e">>, ![6] = <<"n","o">>], "|"),
     join(SubSeq(UserFields, 1, 6), "|"),
     join(UserFields \o <<<<"x">>>>, "|"),
     <<BadByte>>}

\* two well-formed lines; a line of 7 fields; a line of 9 fields, whose third
\* is no number; an 8-field line whose total_target is no number and one
\* whose current_amount is none
ProjectLineSamples ==
    {join(ProjectFields, "|") \o <<" ">>,
     join([ProjectFields EXCEPT ![1] = <<"u">>, ![3] = <<"i","n","f">>], "|"),
     join(SubSeq(ProjectFields, 1, 7), "|"),
     join([ProjectFields EXCEPT ![3] = <<"x">>] \o <<<<"y">>>>, "|"),
     join([ProjectFields EXCEPT ![3] = <<"x">>], "|"),
     join([ProjectFields EXCEPT ![8] = <<>>], "|")}

FilesOver(samples) ==
    {NoFile} \cup {FileOf(ls) : ls \in UNION {[1..k -> samples] : k \in 0..MaxLines}}

InitLoad ==
    /\ users_data = <<>>
    /\ projects_data = <<>>
    /\ current_user_email = None
    /\ users_file \in FilesOver(UserLineSamples)
    /\ projects_file \in FilesOver(ProjectLineSamples)
    /\ pc = "start"
    /\ other = NotRunning
    /\ call = NoCall

NextLoad == main_start

SpecLoad == InitLoad /\ [][NextLoad]_vars

-----------------------------------------------------------------------------
(* A process started on files written by another program or by hand, whose *)
(* lines load_data() accepts: a project of target 0, a project whose       *)
(* start_date is no date.  The guest then views and searches.              *)

DiskUserSamples ==
    {join(UserFields, "|"),
     join([UserFields EXCEPT ![1] = EmailB, ![6] = <<"F","a","l","s","e">>], "|")}

\* a well-formed line; total_target 0.0; a start_date strptime() rejects
DiskProjectSamples ==
    {join(ProjectFields, "|"),
     join([ProjectFields EXCEPT ![1] = <<"z">>, ![3] = <<"0",".","0">>], "|"),
     join([ProjectFields EXCEPT ![1] = <<"s">>, ![4] = <<"s","o","o","n">>], "|")}

InitDisk ==
    /\ users_data = <<>>
    /\ projects_data = <<>>
    /\ current_user_email = None
    /\ users_file \in FilesOver(DiskUserSamples)
    /\ projects_file \in FilesOver(DiskProjectSamples)
    /\ pc = "start"
    /\ other = NotRunning
    /\ call = NoCall

NextDisk == main_start \/ guest_view_all \/ guest_search

SpecDisk == InitDisk /\ [][NextDisk]_vars

-----------------------------------------------------------------------------
(* Two processes run the CLI in the same directory.  The variables         *)
(* users_data, projects_data, current_user_email and pc are the memory of  *)
(* the first, other is the memory of the second, and the two files are     *)
(* shared.  A handler runs from its prompt to its return as one step.      *)

\* the module state of the second process
OtherCur ==
    [users_data |-> other.users_data, projects_data |-> other.projects_data,
     current_user_email |-> other.current_user_email,
     users_file |-> users_file, projects_file |-> projects_file, pc |-> other.pc]

ApplyOther(r) ==
    /\ other' = [users_data |-> r.st.users_data, projects_data |-> r.st.projects_data,
                 current_user_email |-> r.st.current_user_email, pc |-> r.st.pc]
    /\ users_file' = r.st.users_file
    /\ projects_file' = r.st.projects_file
    /\ UNCHANGED <<users_data, projects_data, current_user_email, pc, call>>

\* main, line 66, in the second process
other_start ==
    /\ other.pc = "start"
    /\ ApplyOther(Res([load_data(OtherCur) EXCEPT !.pc = "menu"], "Welcome", <<>>))

\* choice 1 of the guest menu in the second process
other_register ==
    /\ other.pc = "menu"
    /\ get_current_user(OtherCur) = None
    /\ \E in \in SessionRegisters, now \in SessionClock :
         ApplyOther(register_user(OtherCur, in, now))

NextTwo == main_start \/ guest_register \/ guest_exit \/ other_start \/ other_register

SpecTwo == Init /\ [][NextTwo]_vars

-----------------------------------------------------------------------------
(* The functions of data_storage.py and logout_user called on their own,   *)
(* as an importing program may, on registries of up to two users.          *)

UserSamples ==
    {UserOfParts(UserFields),
     UserOfParts([UserFields EXCEPT ![2] = <<"E","v","e">>, ![6] = <<"F","a","l","s","e">>]),
     UserOfParts([UserFields EXCEPT ![1] = EmailB])}

RegistrySamples ==
    {<<>>} \cup {<<u>> : u \in UserSamples}
           \cup {r \in {<<u, v>> : u \in UserSamples, v \in UserSamples} :
                   r[1].email # r[2].email}

\* what set_current_user may be given: a key, a key in another case, an
\* email that is no key, and None
PointerInputs == {None, EmailA, EmailB, <<"A","@","x",".","i","o">>, <<"c","@","x",".","i","o">>}

InitCalls ==
    /\ users_data \in RegistrySamples
    /\ projects_data \in {<<>>, <<ProjectOfParts(ProjectFields)>>}
    /\ current_user_email = None
    /\ \E saved \in BOOLEAN :
         /\ users_file = IF saved THEN SavedUsers(users_data) ELSE NoFile
         /\ projects_file = IF saved THEN SavedProjects(projects_data) ELSE NoFile
    /\ pc = "menu"
    /\ other = NotRunning
    /\ call = NoCall

call_get_current_user ==
    /\ call' = [fn |-> "get_current_user", args |-> <<>>, out |-> <<get_current_user(cur)>>]
    /\ UNCHANGED <<users_data, projects_data, current_user_email,
                   users_file, projects_file, pc, other>>

call_set_current_user == \E email \in PointerInputs : Apply(Res(set_current_user(cur, email), "", <<>>))

call_clear_current_user == Apply(Res(clear_current_user(cur), "", <<>>))

call_logout_user == Apply(logout_user(cur))

NextCalls ==
    \/ call_get_current_user
    \/ call_set_current_user
    \/ call_clear_current_user
    \/ call_logout_user

SpecCalls == InitCalls /\ [][NextCalls]_vars

-----------------------------------------------------------------------------
(* validate_date_range called on its own with two dates strptime() accepts *)
(* while the clock reads now.                                              *)

DateRangeInputs == {Day1, Day2, Day3, Day4, Day5}

InitDates ==
    /\ users_data = <<>>
    /\ projects_data = <<>>
    /\ current_user_email = None
    /\ users_file = NoFile
    /\ projects_file = NoFile
    /\ pc = "start"
    /\ other = NotRunning
    /\ \E start_date \in DateRangeInputs, end_date \in DateRangeInputs, now \in Clock :
         call = [fn |-> "validate_date_range", args |-> <<start_date, end_date, now>>,
                 out |-> <<>>]

call_validate_date_range ==
    /\ call.fn = "validate_date_range"
    /\ call.out = <<>>
    /\ call' = [call EXCEPT !.out =
                  <<validate_date_range(call.args[1], call.args[2], call.args[3])>>]
    /\ UNCHANGED <<users_data, projects_data, current_user_email, users_file,
                   projects_file, pc, other>>

NextDates == call_validate_date_range

SpecDates == InitDates /\ [][NextDates]_vars

-----------------------------------------------------------------------------
(* validate_egyptian_phone called on its own.  The numbers are a prefix    *)
(* (none, the three country codes, two that are none of them) before a     *)
(* body (mobile, landline, wrong operator digit, too short, too long, a    *)
(* letter), written plain, with blanks, hyphen and parentheses, or with a  *)
(* letter after it, and the four numbers the documentation names.          *)

PhonePrefixSamples == {<<>>, <<"+","2","0">>, <<"0","0","2","0">>, <<"2","0">>, <<"+","1">>, <<"0","0","2">>}

PhoneBodySamples ==
    {<<"0","1","0","1","2","3","4","5","6","7","8">>, <<"0","1","5","1","2","3","4","5","6","7","8">>,
     <<"0","1","3","1","2","3","4","5","6","7","8">>, <<"0","2","1","2","3","4","5","6","7","8">>,
     <<"0","1","0","1","2","3","4","5","6","7">>, <<"0","1","0","1","2","3","4","5","6","7","8","9">>,
     <<"0","2","1","2","3","4","5","6","7">>, <<"0","1","0","1","2","3","4","5","6","7","a">>,
     <<"1","2","3">>, <<"1","5","5","5","0","1","0","0">>}

Dress(s, how) ==
    IF how = "plain" THEN s
    ELSE IF how = "dressed"
    THEN <<" ", "(">> \o SubSeq(s, 1, 2) \o <<")", "-", "\t">> \o SubSeq(s, 3, Len(s)) \o <<" ">>
    ELSE s \o <<"x">>

PhoneInputs ==
    {Dress(pre \o body, how) : pre \in PhonePrefixSamples, body \in PhoneBodySamples,
                               how \in {"plain", "dressed", "followed"}}
    \cup {<<"+","1"," ","5","5","5"," ","0","1","0","0">>, <<"0","2","0","1","0","1","2","3","4","5","6","7","8">>}

InitPhones ==
    /\ users_data = <<>>
    /\ projects_data = <<>>
    /\ current_user_email = None
    /\ users_file = NoFile
    /\ projects_file = NoFile
    /\ pc = "start"
    /\ other = NotRunning
    /\ \E phone \in PhoneInputs :
         call = [fn |-> "validate_egyptian_phone", args |-> <<phone>>, out |-> <<>>]

call_validate_egyptian_phone ==
    /\ call.fn = "validate_egyptian_phone"
    /\ call.out = <<>>
    /\ call' = [call EXCEPT !.out = <<validate_egyptian_phone(call.args[1])>>]
    /\ UNCHANGED <<users_data, projects_data, current_user_email, users_file,
                   projects_file, pc, other>>

NextPhones == call_validate_egyptian_phone

SpecPhones == InitPhones /\ [][NextPhones]_vars

-----------------------------------------------------------------------------
(* save_data() step by step, with the process killed at any point inside   *)
(* it.  open(..., 'w') empties the file; every f.write() adds one line;    *)
(* the users file is closed before the projects file is opened.  While     *)
(* save_data runs, call holds the two files as they were when it began.    *)

\* open(f, 'w') leaving the lines the file holds
Truncated_keeps(file) == FileOf(file.lines)

\* lines 59 and 64: open(f, 'w') creates the file or empties it
Truncated(file) == FileOf(<<>>)

InitSave ==
    /\ users_data \in RegistrySamples
    /\ projects_data \in {<<>>, <<ProjectOfParts(ProjectFields)>>}
    /\ current_user_email = None
    /\ users_file \in {NoFile} \cup {SavedUsers(r) : r \in RegistrySamples}
    /\ projects_file \in {NoFile, SavedProjects(<<ProjectOfParts(ProjectFields)>>)}
    /\ pc = "menu"
    /\ other = NotRunning
    /\ call = NoCall

\* line 59
save_open_users ==
    /\ pc = "menu"
    /\ pc' = "save_users"
    /\ users_file' = Truncated(users_file)
    /\ call' = [fn |-> "save_data", args |-> <<users_file, projects_file>>, out |-> <<>>]
    /\ UNCHANGED <<users_data, projects_data, current_user_email, projects_file, other>>

\* lines 60-62: one turn of the loop
save_write_user ==
    /\ pc = "save_users"
    /\ Len(users_file.lines) < Len(users_data)
    /\ users_file' = FileOf(Append(users_file.lines,
                                   UserLine(users_data[Len(users_file.lines) + 1])))
    /\ UNCHANGED <<users_data, projects_data, current_user_email, projects_file, pc,
                   other, call>>

\* line 64, after the loop of line 60 has ended and the users file is closed
save_open_projects ==
    /\ pc = "save_users"
    /\ Len(users_file.lines) = Len(users_data)
    /\ pc' = "save_projects"
    /\ projects_file' = Truncated(projects_file)
    /\ UNCHANGED <<users_data, projects_data, current_user_email, users_file, other, call>>

\* lines 65-67: one turn of the loop
save_write_project ==
    /\ pc = "save_projects"
    /\ Len(projects_file.lines) < Len(projects_data)
    /\ projects_file' = FileOf(Append(projects_file.lines,
                                      ProjectLine(projects_data[Len(projects_file.lines) + 1])))
    /\ UNCHANGED <<users_data, projects_data, current_user_email, users_file, pc,
                   other, call>>

\* save_data returns to its caller
save_return ==
    /\ pc = "save_projects"
    /\ Len(projects_file.lines) = Len(projects_data)
    /\ pc' = "menu"
    /\ call' = [call EXCEPT !.out = <<"returned">>]
    /\ UNCHANGED <<users_data, projects_data, current_user_email, users_file,
                   projects_file, other>>

\* the process is killed inside save_data; the files stay as they are
save_crash ==
    /\ pc \in {"save_users", "save_projects"}
    /\ pc' = "crashed"
    /\ UNCHANGED <<users_data, projects_data, current_user_email, users_file,
                   projects_file, other, call>>

NextSave ==
    \/ save_open_users
    \/ save_write_user
    \/ save_open_projects
    \/ save_write_project
    \/ save_return
    \/ save_crash
    \/ main_start

SpecSave == InitSave /\ [][NextSave]_vars

-----------------------------------------------------------------------------
(* tic-tac-toe.py.  A board is a list of 9 cells, indexed from 0, each '',  *)
(* 'X' or 'O'.  random.choice and random.random are choices of the          *)
(* environment, so a function that calls them has a set of possible         *)
(* results.  While a game is played, call holds the board and difficulty    *)
(* of the last response and its 'winner' entry.                             *)

Cells == 0..8

EmptyBoard == [i \in Cells |-> ""]

\* lines 270-274, in the order of the list
winning_combos ==
    <<<<0, 1, 2>>, <<3, 4, 5>>, <<6, 7, 8>>,
      <<0, 3, 6>>, <<1, 4, 7>>, <<2, 5, 8>>,
      <<0, 4, 8>>, <<2, 4, 6>>>>

\* check_winner returns None
NoWinner == "None"

\* the test of line 277 for one combo
ComboWon(board, combo) ==
    /\ board[combo[1]] = board[combo[2]]
    /\ board[combo[2]] = board[combo[3]]
    /\ board[combo[3]] # ""

\* the mark of the first combo of the list that is won
check_winner(board) ==
    IF \E k \in DOMAIN winning_combos : ComboWon(board, winning_combos[k])
    THEN LET k == CHOOSE k \in DOMAIN winning_combos :
                    /\ ComboWon(board, winning_combos[k])
                    /\ \A h \in 1..(k - 1) : ~ComboWon(board, winning_combos[h])
         IN  board[winning_combos[k][1]]
    ELSE NoWinner

\* a function returns None instead of a cell
NoMove == -1

\* [i for i, spot in enumerate(board) if spot == '']
available(board) == {i \in Cells : board[i] = ""}

\* random.choice(cells) if cells else None, with the board as the function
\* leaves it
RandomChoice(cells, board) ==
    IF cells = {} THEN {[move |-> NoMove, board |-> board]}
    ELSE {[move |-> i, board |-> board] : i \in cells}

\* the loops of lines 300-306 and 309-315 from cell i on: the cell is marked,
\* check_winner is asked, the cell is emptied again
RECURSIVE TryMark(_, _, _)
TryMark(board, mark, i) ==
    IF i = 9 THEN [found |-> FALSE, move |-> NoMove, board |-> board]
    ELSE IF board[i] = ""
    THEN LET marked  == [board EXCEPT ![i] = mark]
             emptied == [marked EXCEPT ![i] = ""]
         IN  IF check_winner(marked) = mark
             THEN [found |-> TRUE, move |-> i, board |-> emptied]
             ELSE TryMark(emptied, mark, i + 1)
    ELSE TryMark(board, mark, i + 1)

\* get_strategic_move with lines 322-325 before lines 318-319: a corner is
\* taken before the centre
get_strategic_move_corner_first(board) ==
    LET win   == TryMark(board, "O", 0)
        block == TryMark(win.board, "X", 0)
        b     == block.board
        available_corners == {i \in {0, 2, 6, 8} : b[i] = ""}
    IN  IF win.found THEN {[move |-> win.move, board |-> win.board]}
        ELSE IF block.found THEN {[move |-> block.move, board |-> b]}
        ELSE IF available_corners # {} THEN RandomChoice(available_corners, b)
        ELSE IF b[4] = "" THEN {[move |-> 4, board |-> b]}
        ELSE RandomChoice(available(b), b)

\* the possible results: the cell returned and the caller's board afterwards
get_strategic_move(board) ==
    LET win   == TryMark(board, "O", 0)
        block == TryMark(win.board, "X", 0)
        b     == block.board
        available_corners == {i \in {0, 2, 6, 8} : b[i] = ""}
    IN  IF win.found THEN {[move |-> win.move, board |-> win.board]}
        ELSE IF block.found THEN {[move |-> block.move, board |-> b]}
        ELSE IF b[4] = "" THEN {[move |-> 4, board |-> b]}
        ELSE IF available_corners # {} THEN RandomChoice(available_corners, b)
        ELSE RandomChoice(available(b), b)

get_computer_move_advanced(board, difficulty) ==
    IF difficulty = 1 THEN RandomChoice(available(board), board)
    ELSE IF difficulty = 2
    THEN get_strategic_move(board) \cup RandomChoice(available(board), board)
    ELSE IF difficulty >= 3 THEN get_strategic_move(board)
    ELSE {[move |-> NoMove, board |-> board]}

\* the response has no 'winner' entry: the game goes on
GameOn == ""

\* lines 121-260: the possible responses to a move of the player
tic_tac_toe_move(board, position, difficulty) ==
    IF board[position] # "" THEN {[board |-> board, winner |-> GameOn]}
    ELSE LET played == [board EXCEPT ![position] = "X"] IN
         IF check_winner(played) = "X" THEN {[board |-> played, winner |-> "X"]}
         ELSE IF available(played) = {} THEN {[board |-> played, winner |-> "Draw"]}
         ELSE {IF r.move = NoMove THEN [board |-> r.board, winner |-> GameOn]
               ELSE LET replied == [r.board EXCEPT ![r.move] = "O"] IN
                    [board  |-> replied,
                     winner |-> IF check_winner(replied) = "O" THEN "O"
                                ELSE IF available(replied) = {} THEN "Draw"
                                ELSE GameOn] :
               r \in get_computer_move_advanced(played, difficulty)}

\* the levels of lines 62-68
Difficulties == 1..5

InitGame ==
    /\ users_data = <<>>
    /\ projects_data = <<>>
    /\ current_user_email = None
    /\ users_file = NoFile
    /\ projects_file = NoFile
    /\ pc = "start"
    /\ other = NotRunning
    /\ \E difficulty \in Difficulties :
         call = [fn |-> "tic_tac_toe_move", args |-> <<EmptyBoard, difficulty>>,
                 out |-> <<GameOn>>]

\* the player posts a move on the board of the last response, while the
\* game goes on
player_move ==
    /\ call.fn = "tic_tac_toe_move"
    /\ call.out = <<GameOn>>
    /\ \E position \in Cells :
         \E r \in tic_tac_toe_move(call.args[1], position, call.args[2]) :
            call' = [call EXCEPT !.args = <<r.board, call.args[2]>>,
                                 !.out = <<r.winner>>]
    /\ UNCHANGED <<users_data, projects_data, current_user_email, users_file,
                   projects_file, pc, other>>

NextGame == player_move

SpecGame == InitGame /\ [][NextGame]_vars

-----------------------------------------------------------------------------
(* get_strategic_move called on its own with any list of 9 cells.          *)

Boards == [Cells -> {"", "X", "O"}]

InitStrategic ==
    /\ users_data = <<>>
    /\ projects_data = <<>>
    /\ current_user_email = None
    /\ users_file = NoFile
    /\ projects_file = NoFile
    /\ pc = "start"
    /\ other = NotRunning
    /\ \E board \in Boards :
         call = [fn |-> "get_strategic_move", args |-> <<board>>, out |-> <<>>]

\* out holds the cell returned and the caller's list after the call
call_get_strategic_move ==
    /\ call.fn = "get_strategic_move"
    /\ call.out = <<>>
    /\ \E r \in get_strategic_move(call.args[1]) : call' = [call EXCEPT !.out = <<r>>]
    /\ UNCHANGED <<users_data, projects_data, current_user_email, users_file,
                   projects_file, pc, other>>

NextStrategic == call_get_strategic_move

SpecStrategic == InitStrategic /\ [][NextStrategic]_vars

-----------------------------------------------------------------------------
(* security.py: SecurityManager.check_rate_limit called by MaxRequests     *)
(* requests for the same action and identifier, each in its own thread or  *)
(* process, on one cache.  cache.get and cache.set are two calls, and      *)
(* another request can run between them.  call holds the limit, the entry  *)
(* of the cache under cache_key (no entry: <<>>) and, for every request,   *)
(* where it is, the current_count it read and what it returned.  The       *)
(* entry does not time out while the requests run.                         *)

MaxRequests == 3

Requests == 1..MaxRequests

\* the values of limit tried
Limits == {1, 2}

NotCalled == [pc |-> "called", current_count |-> 0, result |-> ""]

InitRate ==
    /\ users_data = <<>>
    /\ projects_data = <<>>
    /\ current_user_email = None
    /\ users_file = NoFile
    /\ projects_file = NoFile
    /\ pc = "start"
    /\ other = NotRunning
    /\ \E limit \in Limits :
         call = [fn |-> "check_rate_limit", args |-> <<limit>>, out |-> <<>>,
                 cache |-> <<>>, requests |-> [r \in Requests |-> NotCalled]]

RateStep(c) ==
    /\ call' = c
    /\ UNCHANGED <<users_data, projects_data, current_user_email, users_file,
                   projects_file, pc, other>>

\* line 38: current_count = cache.get(cache_key, 0)
cache_get(r) ==
    /\ call.fn = "check_rate_limit"
    /\ call.requests[r].pc = "called"
    /\ RateStep([call EXCEPT !.requests[r].pc = "read",
                             !.requests[r].current_count =
                                 IF call.cache = <<>> THEN 0 ELSE call.cache[1]])

\* lines 40-41
refuse(r) ==
    /\ call.fn = "check_rate_limit"
    /\ call.requests[r].pc = "read"
    /\ call.requests[r].current_count >= call.args[1]
    /\ RateStep([call EXCEPT !.requests[r].pc = "returned",
                             !.requests[r].result = "False"])

\* lines 43-44: cache.set(cache_key, current_count + 1, period); return True
cache_set(r) ==
    /\ call.fn = "check_rate_limit"
    /\ call.requests[r].pc = "read"
    /\ call.requests[r].current_count < call.args[1]
    /\ RateStep([call EXCEPT !.requests[r].pc = "returned",
                             !.requests[r].result = "True",
                             !.cache = <<call.requests[r].current_count + 1>>])

NextRate == \E r \in Requests : cache_get(r) \/ refuse(r) \/ cache_set(r)

SpecRate == InitRate /\ [][NextRate]_vars

-----------------------------------------------------------------------------
(* Lab-04.py: one AdvancedQueue.  call holds max_size, the list _items,    *)
(* what the last call returned or raised, and, to state the order of the   *)
(* queue, every value insert() has stored and every value pop() has        *)
(* returned, in order.                                                      *)

MaxSize == 2

\* the model stops after this many values have been stored
MaxInserts == 4

QueueValues == {"a", "b"}

\* __init__, lines 40-46
AdvancedQueue(max_size) == [max_size |-> max_size, items |-> <<>>]

\* insert with > in the test of line 49
insert_one_more(q, value) ==
    IF Len(q.items) > q.max_size
    THEN [q |-> q, result |-> "QueueOutOfRangeException"]
    ELSE [q |-> [q EXCEPT !.items = Append(@, value)], result |-> "None"]

\* lines 48-53: result is the exception raised, or None
insert(q, value) ==
    IF Len(q.items) >= q.max_size
    THEN [q |-> q, result |-> "QueueOutOfRangeException"]
    ELSE [q |-> [q EXCEPT !.items = Append(@, value)], result |-> "None"]

\* lines 61-62
is_empty(q) == Len(q.items) = 0

\* lines 55-59: list.pop(0) removes and returns the first item
pop(q) ==
    IF is_empty(q) THEN [q |-> q, result |-> "None"]
    ELSE [q |-> [q EXCEPT !.items = Tail(@)], result |-> Head(q.items)]

\* the queue held in call
queue == [max_size |-> call.args[1], items |-> call.items]

InitQueue ==
    /\ users_data = <<>>
    /\ projects_data = <<>>
    /\ current_user_email = None
    /\ users_file = NoFile
    /\ projects_file = NoFile
    /\ pc = "start"
    /\ other = NotRunning
    /\ \E max_size \in 0..MaxSize :
         call = [fn |-> "AdvancedQueue", args |-> <<max_size>>, out |-> <<>>,
                 items |-> AdvancedQueue(max_size).items,
                 inserted |-> <<>>, popped |-> <<>>]

QueueStep(c) ==
    /\ call' = c
    /\ UNCHANGED <<users_data, projects_data, current_user_email, users_file,
                   projects_file, pc, other>>

queue_insert ==
    /\ call.fn = "AdvancedQueue"
    /\ Len(call.inserted) < MaxInserts
    /\ \E value \in QueueValues :
         LET r == insert(queue, value) IN
         QueueStep([call EXCEPT !.items = r.q.items,
                                !.out = <<r.result>>,
                                !.inserted = IF r.result = "None" THEN Append(@, value) ELSE @])

queue_pop ==
    /\ call.fn = "AdvancedQueue"
    /\ LET r == pop(queue) IN
       QueueStep([call EXCEPT !.items = r.q.items,
                              !.out = <<r.result>>,
                              !.popped = IF is_empty(queue) THEN @ ELSE Append(@, r.result)])

NextQueue == queue_insert \/ queue_pop

SpecQueue == InitQueue /\ [][NextQueue]_vars

-----------------------------------------------------------------------------
(* A process started on a projects file of up to MaxStored lines, some of  *)
(* them equal, as two creations at the same clock reading, two processes   *)
(* or an editor leave them; the owner logs in and deletes.                  *)

MaxStored == 3

\* the account of a@x.io, activated, with the password secret
StoredUser ==
    [create_user(<<"A","l">>, <<"B","o">>, EmailA, <<"s","e","c","r","e","t">>,
                 <<"0","1","0">>, [day |-> 20300101, hour |-> 12])
       EXCEPT !.is_active = TRUE]

\* a project of a@x.io, one of b@x.io, another of a@x.io
StoredProjectLines ==
    {join(ProjectFields, "|"),
     join([ProjectFields EXCEPT ![1] = <<"u">>, ![6] = EmailB], "|"),
     join([ProjectFields EXCEPT ![1] = <<"v">>], "|")}

InitDelete ==
    /\ users_data = <<>>
    /\ projects_data = <<>>
    /\ current_user_email = None
    /\ users_file = SavedUsers(<<StoredUser>>)
    /\ projects_file \in {NoFile} \cup
         {FileOf(ls) : ls \in UNION {[1..k -> StoredProjectLines] : k \in 0..MaxStored}}
    /\ pc = "start"
    /\ other = NotRunning
    /\ call = NoCall

NextDelete == main_start \/ guest_login \/ user_delete

SpecDelete == InitDelete /\ [][NextDelete]_vars

-----------------------------------------------------------------------------
(* Properties.  AtMenu: a process is running and waits at its menu.        *)

AtMenu == pc = "menu"
Guest == AtMenu /\ get_current_user(cur) = None
LoggedIn == AtMenu /\ get_current_user(cur) # None

Registered(r) == r.result \in {"Account activated!", "Registration successful!"}
SaidYes(answer) == answer \in {<<"y">>, <<"Y">>}

\* C1: when register_user() succeeds, a login_user() that follows at once
\* with the email and the password just typed succeeds, setting the current
\* user to that email, exactly if the activation prompt was answered y; if
\* it was not, login fails with "Account not activated!" and the pointer
\* stays unset.
C1_RegisterThenLogin ==
    Guest =>
      \A in \in RegisterInputs, now \in Clock :
        LET r == register_user(cur, in, now)
            l == login_user(r.st, in.em, in.pw)
        IN  Registered(r) =>
              /\ (l.result = "Welcome") = SaidYes(in.act)
              /\ l.result = "Welcome" =>
                    l.st.current_user_email = lower(strip(in.em))
              /\ ~SaidYes(in.act) =>
                    /\ l.result = "Account not activated!"
                    /\ l.st.current_user_email = None

\* a user registered without activation is in the registry, nobody is logged
\* in, and a login with that user's password is refused as not activated
C1_Witness ==
    /\ Guest
    /\ current_user_email = None
    /\ \E i \in DOMAIN users_data :
         /\ ~users_data[i].is_active
         /\ login_user(cur, users_data[i].email, <<"s","e","c","r","e","t">>).result
              = "Account not activated!"


\* the three ways a login can fail, as the registry decides them
KnownEmail(e) == \E i \in DOMAIN users_data : users_data[i].email = e
ActiveEmail(e) == \E i \in DOMAIN users_data : users_data[i].email = e /\ users_data[i].is_active
MatchingPassword(e, p) ==
    \E i \in DOMAIN users_data :
      users_data[i].email = e /\ users_data[i].password_hash = hash_password(p)

\* C5: login_user() sets the current-user pointer to the lower-cased email
\* typed exactly when that email is a key of the registry, the account is
\* active and the password hash matches; when the email is absent, the
\* account inactive or the password wrong it prints the message of that
\* case and leaves the pointer, both registries and the files as they were.
C5_LoginOutcome ==
    Guest =>
      \A em \in LoginEmailInputs, pw \in LoginPasswordInputs :
        LET r == login_user(cur, em, pw)
            e == lower(strip(em))
            p == strip(pw)
        IN  /\ (r.st.current_user_email = e)
                 = (KnownEmail(e) /\ ActiveEmail(e) /\ MatchingPassword(e, p))
            /\ r.st.current_user_email = e =>
                 /\ r.result = "Welcome"
                 /\ r.st = [cur EXCEPT !.current_user_email = e]
            /\ ~KnownEmail(e) => r.result = "Email not found!" /\ r.st = cur
            /\ KnownEmail(e) /\ ~ActiveEmail(e) =>
                 r.result = "Account not activated!" /\ r.st = cur
            /\ ActiveEmail(e) /\ ~MatchingPassword(e, p) =>
                 r.result = "Invalid password!" /\ r.st = cur

\* the registry holds an active and an inactive account, nobody is logged in,
\* and the four outcomes of a login all occur for some answers
C5_Witness ==
    /\ Guest
    /\ \A out \in {"Welcome", "Email not found!", "Account not activated!", "Invalid password!"} :
         \E em \in LoginEmailInputs, pw \in LoginPasswordInputs :
           login_user(cur, em, pw).result = out

\* the ways a registration is refused
RegisterRefused(in) ==
    \/ ~validate_name(strip(in.fn))
    \/ ~validate_name(strip(in.ln))
    \/ ~validate_email(lower(strip(in.em)))
    \/ KnownEmail(lower(strip(in.em)))
    \/ Len(strip(in.pw)) < 6
    \/ strip(in.pw) # strip(in.cf)
    \/ ~validate_egyptian_phone(strip(in.mb))

\* C6: the registry never holds two users with the same email, every key is
\* lower-case, and a registration that is refused (duplicate email, invalid
\* name, email or phone, password shorter than 6, mismatched confirmation)
\* leaves the registry, the existing records and the users file as they
\* were; one that is not refused adds exactly one user under the lower-cased
\* email and keeps the records already there.
C6_RegisterUnique ==
    /\ \A i, j \in DOMAIN users_data :
         users_data[i].email = users_data[j].email => i = j
    /\ \A i \in DOMAIN users_data : users_data[i].email = lower(users_data[i].email)
    /\ Guest =>
         \A in \in RegisterInputs, now \in Clock :
           LET r == register_user(cur, in, now) IN
           IF RegisterRefused(in)
           THEN ~Registered(r) /\ r.st = cur
           ELSE /\ Registered(r)
                /\ Len(r.st.users_data) = Len(users_data) + 1
                /\ SubSeq(r.st.users_data, 1, Len(users_data)) = users_data
                /\ r.st.users_data[Len(users_data) + 1].email = lower(strip(in.em))

\* an account is registered and active, and registering its email again,
\* with another name and password, is refused as a duplicate
C6_Witness ==
    /\ Guest
    /\ \E i \in DOMAIN users_data : users_data[i].is_active /\ users_data[i].email = EmailB
    /\ \E in \in RegisterInputs, now \in Clock :
         /\ in.fn # users_data[1].first_name
         /\ register_user(cur, in, now).result = "Email already exists!"


\* the projects of a list that email does not own, in the order of the list
NotOwnedBy(projects, email) == SelectSeq(projects, LAMBDA p : p.owner_email # email)

\* C2: while a user A is logged in, edit_user_project() and
\* delete_user_project() list only projects owned by A, and whatever is typed
\* as the selection, the new values or the confirmation, every project owned
\* by another user stays in the list, at its place among the others, with
\* every field as it was.
C2_OthersUntouched ==
    LoggedIn =>
      \A sel \in SelectInputs :
        /\ \A form \in EditInputs :
             LET e == edit_user_project(cur, sel, form) IN
             /\ \A k \in DOMAIN e.shown : e.shown[k].owner_email = current_user_email
             /\ Len(e.st.projects_data) = Len(projects_data)
             /\ \A i \in DOMAIN projects_data :
                  projects_data[i].owner_email # current_user_email
                    => e.st.projects_data[i] = projects_data[i]
        /\ \A confirm \in YesNoInputs :
             LET d == delete_user_project(cur, sel, confirm) IN
             /\ \A k \in DOMAIN d.shown : d.shown[k].owner_email = current_user_email
             /\ NotOwnedBy(d.st.projects_data, current_user_email)
                  = NotOwnedBy(projects_data, current_user_email)

\* the list holds a project of the user logged in and one of another user,
\* and both an edit and a confirmed deletion go through for some selection
C2_Witness ==
    /\ LoggedIn
    /\ \E i, j \in DOMAIN projects_data :
         /\ projects_data[i].owner_email = current_user_email
         /\ projects_data[j].owner_email # current_user_email
    /\ \E sel \in SelectInputs, form \in EditInputs :
         /\ edit_user_project(cur, sel, form).st.projects_data # projects_data
         /\ Len(delete_user_project(cur, sel, <<"y">>).st.projects_data) < Len(projects_data)

\* the date a stored 'YYYY-MM-DD' str denotes, as the number yyyymmdd
DayOf(date_str) == ParseDate(date_str).day

\* C4: for a valid date d search_projects_by_date() lists exactly the
\* projects, of any owner and in the order of the list, whose start_date is
\* at or before d and whose end_date is at or after d, and it leaves the
\* registries, the current user and the files as they were.
C4_SearchInclusive ==
    AtMenu =>
      \A di \in SearchInputs :
        LET r == search_projects_by_date(cur, di)
            d == DayOf(strip(di))
        IN  validate_date(strip(di)) =>
              /\ r.st = cur
              /\ r.shown = SelectSeq(projects_data,
                               LAMBDA p : DayOf(p.start_date) <= d /\ d <= DayOf(p.end_date))

\* two owners' projects with different end dates are listed; a search on the
\* common start date and one on the earlier end date list both, a search on
\* the later end date lists one, a search the day after lists none
C4_Witness ==
    /\ AtMenu
    /\ \E i, j \in DOMAIN projects_data :
         /\ projects_data[i].owner_email # projects_data[j].owner_email
         /\ DayOf(projects_data[i].end_date) < DayOf(projects_data[j].end_date)
         /\ \E a, b, c, e \in SearchInputs :
              /\ DayOf(strip(a)) = DayOf(projects_data[i].start_date)
              /\ DayOf(strip(b)) = DayOf(projects_data[i].end_date)
              /\ DayOf(strip(c)) = DayOf(projects_data[j].end_date)
              /\ search_projects_by_date(cur, a).shown = projects_data
              /\ search_projects_by_date(cur, b).shown = projects_data
              /\ search_projects_by_date(cur, c).shown = <<projects_data[j]>>
              /\ validate_date(strip(e)) /\ search_projects_by_date(cur, e).shown = <<>>

\* what the fields typed for a new project must satisfy; a start date on the
\* day the clock shows is taken as not in the past
ValidProject(in, now) ==
    /\ strip(in.ti) # <<>>
    /\ strip(in.de) # <<>>
    /\ ParseFloat(in.ta).ok /\ FloatGT0(ParseFloat(in.ta).val)
    /\ validate_date(strip(in.sd)) /\ validate_date(strip(in.ed))
    /\ DayOf(strip(in.sd)) < DayOf(strip(in.ed))
    /\ DayOf(strip(in.sd)) >= now.day

\* C7: create_new_project() changes the project list only when a user is
\* logged in and every field validates (non-empty title and details, target
\* greater than 0, both dates parseable, start before end, start not in the
\* past); then exactly one project is appended, owned by the current user
\* and with current_amount 0, after the earlier projects, which are
\* unchanged; otherwise the list and the projects file are unchanged.
C7_CreateOnlyValid ==
    AtMenu =>
      \A in \in CreateInputs, now \in Clock, made \in Clock :
        LET r == create_new_project(cur, in, now, made)
            n == Len(projects_data)
        IN  IF r.st.projects_data # projects_data
            THEN /\ LoggedIn
                 /\ ValidProject(in, now)
                 /\ Len(r.st.projects_data) = n + 1
                 /\ SubSeq(r.st.projects_data, 1, n) = projects_data
                 /\ r.st.projects_data[n + 1].owner_email = current_user_email
                 /\ r.st.projects_data[n + 1].current_amount = Fin(0)
            ELSE r.st.projects_file = projects_file

\* the position in projects_data of the project a selection picks: the
\* ParseInt(sel)-th of those the current user owns
Selected(sel) ==
    {i \in DOMAIN projects_data :
       /\ ParseInt(sel).ok
       /\ projects_data[i].owner_email = current_user_email
       /\ Cardinality({j \in 1..i : projects_data[j].owner_email = current_user_email})
            = ParseInt(sel).val}

\* C8: edit_user_project() leaves the user registry, the current user and
\* the number and order of projects as they were; it changes no project but
\* the one selected, of which start_date, end_date, owner_email, created_at
\* and current_amount stay as they were; and a prompt answered with blank
\* input leaves its field as it was.
C8_EditFrame ==
    LoggedIn =>
      \A sel \in SelectInputs, form \in EditInputs :
        LET r   == edit_user_project(cur, sel, form)
            new == r.st.projects_data
        IN  /\ r.st.users_data = users_data
            /\ r.st.current_user_email = current_user_email
            /\ Len(new) = Len(projects_data)
            /\ \A i \in DOMAIN projects_data :
                 /\ i \notin Selected(sel) => new[i] = projects_data[i]
                 /\ new[i].start_date = projects_data[i].start_date
                 /\ new[i].end_date = projects_data[i].end_date
                 /\ new[i].owner_email = projects_data[i].owner_email
                 /\ new[i].created_at = projects_data[i].created_at
                 /\ new[i].current_amount = projects_data[i].current_amount
                 /\ strip(form[1]) = <<>> => new[i].title = projects_data[i].title
                 /\ strip(form[2]) = <<>> => new[i].details = projects_data[i].details
                 /\ strip(form[3]) = <<>> => new[i].total_target = projects_data[i].total_target

\* the user logged in owns a project listed after another user's, and an
\* edit that answers only the details prompt changes the details of that
\* project and nothing else
C8_Witness ==
    /\ LoggedIn
    /\ Len(projects_data) = 2
    /\ projects_data[1].owner_email # current_user_email
    /\ projects_data[2].owner_email = current_user_email
    /\ edit_user_project(cur, <<"1">>, <<<<>>, <<"e">>, <<>>>>).st.projects_data
         = [projects_data EXCEPT ![2].details = <<"e">>]
    /\ projects_data[2].details # <<"e">>

\* what a deletion needs besides the confirmation
Deletable(sel) == LoggedIn /\ Selected(sel) # {}

\* C9 as stated: delete_user_project() removes a project only when the
\* confirmation prompt is answered y; with any other answer, an out-of-range
\* or non-numeric selection, no owned project or no user logged in, the
\* project list and the projects file are unchanged; with the confirmation
\* the list shrinks by exactly one project and the file holds the new list.
C9_OnlyLowerCaseY ==
    AtMenu =>
      \A sel \in SelectInputs, confirm \in YesNoInputs :
        LET r == delete_user_project(cur, sel, confirm) IN
        IF Deletable(sel) /\ confirm = <<"y">>
        THEN /\ Len(r.st.projects_data) = Len(projects_data) - 1
             /\ r.st.projects_file = SavedProjects(r.st.projects_data)
        ELSE /\ r.st.projects_data = projects_data
             /\ r.st.projects_file = projects_file

\* C9: delete_user_project() removes a project only when the confirmation
\* prompt is answered with the single letter y or Y; with any other answer
\* (a y with a space around it included), an out-of-range or non-numeric
\* selection, no owned project or no user logged in, the project list and
\* the projects file are unchanged; with the confirmation the list loses
\* exactly one project, the one selected or one equal to it in every field,
\* the others keep their order, and the file holds the new list.
C9_DeleteConfirmed ==
    AtMenu =>
      \A sel \in SelectInputs, confirm \in YesNoInputs :
        LET r == delete_user_project(cur, sel, confirm) IN
        IF Deletable(sel) /\ SaidYes(confirm)
        THEN /\ Len(r.st.projects_data) = Len(projects_data) - 1
             /\ \E i \in Selected(sel), j \in DOMAIN projects_data :
                  /\ projects_data[j] = projects_data[i]
                  /\ r.st.projects_data = RemoveAt(projects_data, j)
             /\ r.st.projects_file = SavedProjects(r.st.projects_data)
        ELSE /\ r.st.projects_data = projects_data
             /\ r.st.projects_file = projects_file

\* the user logged in owns a project: answering Y at the prompt deletes it,
\* answering y after a space, n or nothing does not
C9_Witness ==
    /\ LoggedIn
    /\ \E sel \in SelectInputs :
         /\ delete_user_project(cur, sel, <<"Y">>).result = "Project deleted successfully!"
         /\ delete_user_project(cur, sel, <<"y">>).result = "Project deleted successfully!"
         /\ \A confirm \in {<<" ","y">>, <<"n">>, <<>>} :
              delete_user_project(cur, sel, confirm).result = "Deletion cancelled."


\* the registries of s, seen by a caller that compares them to those of the
\* variables: users by key, projects by position, values with ==
SameRegistries(s) ==
    /\ {s.users_data[i].email : i \in DOMAIN s.users_data}
         = {users_data[i].email : i \in DOMAIN users_data}
    /\ \A i \in DOMAIN users_data :
         HasKey(s.users_data, users_data[i].email)
           /\ Lookup(s.users_data, users_data[i].email) = users_data[i]
    /\ Len(s.projects_data) = Len(projects_data)
    /\ \A i \in DOMAIN projects_data : ProjectEq(s.projects_data[i], projects_data[i])

NoPipeIn(str) == \A i \in DOMAIN str : str[i] # "|"

NoPipe ==
    /\ \A i \in DOMAIN users_data :
         /\ NoPipeIn(users_data[i].first_name) /\ NoPipeIn(users_data[i].last_name)
         /\ NoPipeIn(users_data[i].email) /\ NoPipeIn(users_data[i].password_hash)
         /\ NoPipeIn(users_data[i].mobile) /\ NoPipeIn(users_data[i].created_at)
    /\ \A i \in DOMAIN projects_data :
         /\ NoPipeIn(projects_data[i].title) /\ NoPipeIn(projects_data[i].details)
         /\ NoPipeIn(projects_data[i].start_date) /\ NoPipeIn(projects_data[i].end_date)
         /\ NoPipeIn(projects_data[i].owner_email) /\ NoPipeIn(projects_data[i].created_at)

\* C3: in every state the menu operations reach in which no field holds a
\* '|', save_data() followed by load_data() into empty registries gives the
\* same users (same keys, every field equal, is_active included) and the
\* same projects in the same order with every field equal.
C3_RoundTrip ==
    AtMenu /\ NoPipe =>
      SameRegistries(load_data([save_data(cur) EXCEPT !.users_data = <<>>,
                                                      !.projects_data = <<>>]))

\* the number of fields split('|') makes of a line, counted on the line
FieldCount(line) ==
    Cardinality({i \in DOMAIN strip(line) : strip(line)[i] = "|"}) + 1

FieldsOf(line) == split(strip(line), "|")

\* C10: after load_data() the user registry holds, for each email that
\* starts a 7-field line of the users file, the record of the last such
\* line, and nothing for the lines of any other field count; the project
\* list holds the records of the 8-field lines of the projects file in their
\* order, and nothing for the other lines, unless one of the 8-field lines
\* has a total_target or a current_amount that is no number or the file
\* cannot be decoded: then the list is empty, whatever preceded the faulty
\* line, and the user registry is what the users file alone determines.
C10_LoadDropsAndResets ==
    pc = "menu" =>
      LET ulines == SelectSeq(users_file.lines, LAMBDA l : FieldCount(l) = 7)
          plines == SelectSeq(projects_file.lines, LAMBDA l : FieldCount(l) = 8)
          raises ==
              \/ Undecodable(projects_file.lines)
              \/ \E k \in DOMAIN plines :
                   ~ParseFloat(FieldsOf(plines[k])[3]).ok \/ ~ParseFloat(FieldsOf(plines[k])[8]).ok
      IN  /\ IF Undecodable(users_file.lines)
             THEN users_data = <<>>
             ELSE /\ \A i, j \in DOMAIN users_data :
                       users_data[i].email = users_data[j].email => i = j
                  /\ {users_data[i].email : i \in DOMAIN users_data}
                       = {FieldsOf(ulines[k])[1] : k \in DOMAIN ulines}
                  /\ \A i \in DOMAIN users_data :
                       \E k \in DOMAIN ulines :
                         /\ users_data[i] = UserOfParts(FieldsOf(ulines[k]))
                         /\ \A m \in (k + 1)..Len(ulines) :
                              FieldsOf(ulines[m])[1] # users_data[i].email
          /\ projects_data =
               IF raises THEN <<>>
               ELSE [k \in DOMAIN plines |-> ProjectOfParts(FieldsOf(plines[k]))]

\* the users file holds a line of the wrong field count and a well-formed
\* one, which is loaded; the projects file holds a well-formed line followed
\* by an 8-field line whose number cannot be parsed, and no project is loaded
C10_Witness ==
    /\ pc = "menu"
    /\ Len(users_file.lines) = 2 /\ Len(projects_file.lines) = 2
    /\ FieldCount(users_file.lines[1]) # 7
    /\ Len(users_data) = 1
    /\ ~ProjectLineRaises(projects_file.lines[1]) /\ FieldCount(projects_file.lines[1]) = 8
    /\ ProjectLineRaises(projects_file.lines[2])
    /\ projects_data = <<>>


\* a step of a running process that changes one of its registries: a
\* registration, an activation, a creation, an edit or a confirmed deletion
Mutates ==
    /\ pc = "menu" /\ pc' = "menu"
    /\ (users_data' # users_data \/ projects_data' # projects_data)

\* C11: after every operation of a running process that changes a registry
\* the users file holds one line per user of users_data and the projects
\* file one line per project of projects_data, each line the record with
\* '|' between its fields, in the order of the registry.
C11_FilesMirror ==
    [][Mutates =>
         /\ Len(users_file'.lines) = Len(users_data')
         /\ Len(projects_file'.lines) = Len(projects_data')
         /\ \A i \in DOMAIN users_data' : users_file'.lines[i] = UserLine(users_data'[i])
         /\ \A i \in DOMAIN projects_data' :
              projects_file'.lines[i] = ProjectLine(projects_data'[i])]_vars

\* two users are registered, two projects are listed, one of them edited,
\* and the files hold a line for each
C11_Witness ==
    /\ AtMenu
    /\ Len(users_data) = 2 /\ Len(projects_data) = 2
    /\ \E i \in DOMAIN projects_data : projects_data[i].details = <<"e">>
    /\ Len(users_file.lines) = 2 /\ Len(projects_file.lines) = 2
    /\ projects_file.lines[1] = ProjectLine(projects_data[1])


\* C12: get_current_user() returns None when the pointer is unset or is no
\* key of the user registry, and otherwise the record the registry holds
\* under the pointer.
C12_CurrentUser ==
    LET r == get_current_user(cur) IN
    IF current_user_email = None \/ ~KnownEmail(current_user_email)
    THEN r = None
    ELSE \E i \in DOMAIN users_data :
           users_data[i].email = current_user_email /\ r = <<users_data[i]>>

\* the pointer holds an email, that of no user, while the registry has users
C12_Witness ==
    /\ Len(users_data) = 2
    /\ current_user_email # None /\ ~KnownEmail(current_user_email)
    /\ get_current_user(cur) = None

\* C13: logout_user() leaves the pointer unset and everything else as it
\* was, whether a user was logged in or not, and a second logout_user() right
\* after the first leaves the state the first one left.
C13_LogoutIdempotent ==
    LET once  == logout_user(cur).st
        twice == logout_user(once).st
    IN  /\ once = [cur EXCEPT !.current_user_email = None]
        /\ twice = once

\* a user is logged in, with registries and files that are not empty
C13_Witness ==
    /\ get_current_user(cur) # None
    /\ projects_data # <<>> /\ users_file.exists /\ projects_file.exists
    /\ logout_user(cur).st # cur


\* a step in which the pointer comes to hold an email it did not hold
PointerSet == current_user_email' # None /\ current_user_email' # current_user_email

\* C14: the pointer comes to hold an email only by a login_user() that
\* succeeds for that email, from a state in which nobody is logged in; it
\* never names more than one record of the registry; it is None after
\* logout_user(); and when a process starts, loading the files, it is None,
\* whoever was logged in when the files were written.
C14_SessionPointer ==
    [][/\ PointerSet =>
            /\ Guest
            /\ \E em \in LoginEmailInputs, pw \in LoginPasswordInputs :
                 LET r == login_user(cur, em, pw) IN
                 /\ r.result = "Welcome"
                 /\ current_user_email' = r.st.current_user_email
                 /\ users_data' = r.st.users_data
       /\ Cardinality({i \in DOMAIN users_data' :
                         users_data'[i].email = current_user_email'}) <= 1
       /\ user_logout => current_user_email' = None
       /\ main_start => current_user_email' = None
      ]_vars

\* one of two active users is logged in, and the files written while the
\* user is logged in hold the two users and nothing else
C14_Witness ==
    /\ LoggedIn
    /\ Len(users_data) = 2 /\ users_data[1].is_active /\ users_data[2].is_active
    /\ current_user_email = users_data[2].email
    /\ users_file = SavedUsers(users_data)
    /\ projects_file = SavedProjects(projects_data)


C16_NoCrash ==
    /\ pc # "crashed"
    /\ AtMenu =>
         /\ view_all_projects(cur).st.pc = "menu"
         /\ view_my_projects(cur).st.pc = "menu"
         /\ \A di \in SearchInputs : search_projects_by_date(cur, di).st.pc = "menu"


\* the files after the step are those save_data() writes for the given
\* registries, and a process that loads them gets exactly these registries
WrittenFrom(users, projects) ==
    /\ users_file' = SavedUsers(users)
    /\ projects_file' = SavedProjects(projects)
    /\ load_users(users_file', <<>>) = users
    /\ load_projects(projects_file', <<>>) = projects

\* the emails of the users a process loading the files now would hold
OnDisk == {load_users(users_file, <<>>)[i].email : i \in DOMAIN load_users(users_file, <<>>)}

\* C17: with two processes on the same files, every operation of a process
\* that changes its registry leaves the files holding that process's
\* registries and nothing else, whatever the other process saved before: a
\* later load returns the registries of the last writer, so a change only
\* the earlier writer had made is on disk no more.
C17_LastWriterWins ==
    [][/\ (pc = "menu" /\ pc' = "menu" /\ users_data' # users_data) =>
            WrittenFrom(users_data', projects_data')
       /\ (other.pc = "menu" /\ other'.users_data # other.users_data) =>
            WrittenFrom(other'.users_data, other'.projects_data)
      ]_vars

\* both processes are at the menu; the first registered a user and saved,
\* the second saved afterwards: the files hold the second's registry and the
\* first's user is not in them
C17_Witness ==
    /\ pc = "menu" /\ other.pc = "menu"
    /\ users_file = SavedUsers(other.users_data)
    /\ other.users_data # <<>>
    /\ \E i \in DOMAIN users_data :
         /\ users_data[i].email \notin OnDisk
         /\ ~HasKey(other.users_data, users_data[i].email)


\* validate_date_range has returned
Returned == call.fn = "validate_date_range" /\ call.out # <<>>

\* hours from a fixed origin to hour h of the day numbered d: the order of
\* two such numbers is the order of the two datetimes
HourOf(d, h) == d * 24 + h

\* C18: for two parseable dates and the clock value now, validate_date_range
\* returns (True, "") exactly when start < end and midnight of start is not
\* before now; otherwise it returns False with a non-empty message, which is
\* the message about the end date whenever end <= start, also when start is
\* in the past as well.
C18_DateRange ==
    Returned =>
      LET r      == call.out[1]
          start  == DayOf(call.args[1])
          end    == DayOf(call.args[2])
          now    == call.args[3]
          past   == HourOf(start, 0) < HourOf(now.day, now.hour)
      IN  /\ r.ok <=> (start < end /\ ~past)
          /\ r.ok => r.msg = ""
          /\ ~r.ok => r.msg # ""
          /\ end <= start => r.msg = "End date must be after start date!"
          /\ (start < end /\ past) => r.msg = "Start date cannot be in the past!"

\* both tests fail and the message is that of the first
C18_Witness ==
    /\ Returned
    /\ DayOf(call.args[2]) < DayOf(call.args[1])
    /\ DayOf(call.args[1]) < call.args[3].day
    /\ call.out[1] = [ok |-> FALSE, msg |-> "End date must be after start date!"]


\* C19: in every step of a running process every user of the registry is
\* still there afterwards, at the same place and with the same fields,
\* is_active included; the registry grows by one user at most, under an
\* email that was no key, and that user is active only when the activation
\* prompt of the registration of that email was answered with yes.  So
\* is_active turns true only inside the user's own registration and never
\* turns false.
C19_UsersKept ==
    [][(pc = "menu" /\ pc' = "menu") =>
         /\ Len(users_data') \in {Len(users_data), Len(users_data) + 1}
         /\ \A i \in DOMAIN users_data : users_data'[i] = users_data[i]
         /\ Len(users_data') > Len(users_data) =>
              LET user == users_data'[Len(users_data')] IN
              /\ ~KnownEmail(user.email)
              /\ user.is_active =>
                   \E in \in SessionRegisters :
                      SaidYes(in.act) /\ lower(strip(in.em)) = user.email
      ]_vars

\* nobody is logged in; a user who declined activation is still inactive
\* after a second user registered and activated
C19_Witness ==
    /\ Guest
    /\ Len(users_data) = 2
    /\ ~users_data[1].is_active
    /\ users_data[2].is_active
    /\ users_file = SavedUsers(users_data)


\* C20: in every state of the CLI, whether the list was built by
\* create_new_project, changed by edit_user_project or delete_user_project,
\* or read back by load_data from the file save_data wrote, every project
\* has current_amount 0.
C20_AmountStaysZero ==
    \A i \in DOMAIN projects_data : projects_data[i].current_amount = Fin(0)

\* nobody is logged in and the list holds two projects, one of them edited,
\* with current_amount 0; the file holds the same two
C20_Witness ==
    /\ Guest
    /\ Len(projects_data) = 2
    /\ \E i \in DOMAIN projects_data : projects_data[i].details = <<"e">>
    /\ \A i \in DOMAIN projects_data : projects_data[i].current_amount = Fin(0)
    /\ Len(projects_file.lines) = 2

\* C21: in every state of the CLI every project of the list has a
\* total_target greater than 0 and a start_date before its end_date.
C21_ProjectsValid ==
    \A i \in DOMAIN projects_data :
       /\ FloatGT0(projects_data[i].total_target)
       /\ DayOf(projects_data[i].start_date) < DayOf(projects_data[i].end_date)

\* the number without blanks, hyphens and parentheses
Undressed(s) == SelectSeq(s, LAMBDA c : c \notin {" ", "\t", "-", "(", ")"})

\* an optional country code, then 010, 011, 012 or 015 or else 02, then 8
\* digits, and nothing more
EgyptianNumber(p) ==
    \E pre \in {<<>>, <<"+","2","0">>, <<"0","0","2","0">>, <<"2","0">>},
       op \in {<<"0","1","0">>, <<"0","1","1">>, <<"0","1","2">>, <<"0","1","5">>, <<"0","2">>} :
       /\ Len(p) = Len(pre) + Len(op) + 8
       /\ SubSeq(p, 1, Len(pre) + Len(op)) = pre \o op
       /\ AllDigits(SubSeq(p, Len(pre) + Len(op) + 1, Len(p)))

\* C22: validate_egyptian_phone(s) is true exactly when s without blanks,
\* hyphens and parentheses is an optional +20, 0020 or 20, then 010, 011,
\* 012 or 015 and 8 digits, or 02 and 8 digits, with nothing before or after;
\* it accepts 01012345678 and 0212345678 and rejects 123 and +1 555 0100.
C22_EgyptianPhone ==
    (call.fn = "validate_egyptian_phone" /\ call.out # <<>>) =>
       /\ call.out[1] <=> EgyptianNumber(Undressed(call.args[1]))
       /\ validate_egyptian_phone(<<"0","1","0","1","2","3","4","5","6","7","8">>)
       /\ validate_egyptian_phone(<<"0","2","1","2","3","4","5","6","7","8">>)
       /\ ~validate_egyptian_phone(<<"1","2","3">>)
       /\ ~validate_egyptian_phone(<<"+","1"," ","5","5","5"," ","0","1","0","0">>)

\* a mobile number after +20, written with blanks, a hyphen and parentheses,
\* is accepted
C22_Witness ==
    /\ call.fn = "validate_egyptian_phone"
    /\ call.out = <<TRUE>>
    /\ Head(call.args[1]) = " "
    /\ SubSeq(Undressed(call.args[1]), 1, 6) = <<"+","2","0","0","1","5">>

\* save_data has begun and has not returned: it is running or was killed
InsideSave == call.fn = "save_data" /\ call.out = <<>> /\ pc # "menu"

\* C23: save_data() empties and rewrites the users file, then the projects
\* file.  At every point inside it, and after the process is killed there,
\* the users file holds the first lines of what a whole save writes and the
\* projects file is as it was before, or holds the first lines of what a
\* whole save writes; load_data() on these files raises nothing and returns
\* exactly the records of those lines.  A save that returns leaves the two
\* files save_data() is specified to leave.
C23_SaveNotAtomic ==
    /\ InsideSave =>
         LET nu == Len(users_file.lines)
             np == Len(projects_file.lines)
         IN  /\ users_file.exists
             /\ nu <= Len(users_data)
             /\ users_file.lines = SubSeq(SavedUsers(users_data).lines, 1, nu)
             /\ load_users(users_file, <<>>) = SubSeq(users_data, 1, nu)
             /\ \/ projects_file = call.args[2]
                \/ /\ nu = Len(users_data)
                   /\ projects_file.exists
                   /\ np <= Len(projects_data)
                   /\ projects_file.lines = SubSeq(SavedProjects(projects_data).lines, 1, np)
                   /\ load_projects(projects_file, <<>>) = SubSeq(projects_data, 1, np)
    /\ (call.fn = "save_data" /\ call.out = <<"returned">> /\ pc = "menu") =>
         /\ users_file = save_data(cur).users_file
         /\ projects_file = save_data(cur).projects_file

\* the process was killed inside save_data with two users in memory and one
\* on disk before: the users file holds no record, fewer than before and
\* fewer than in memory, and the projects file is still the old one
C23_Witness ==
    /\ pc = "crashed"
    /\ call.fn = "save_data"
    /\ Len(users_data) = 2
    /\ Len(call.args[1].lines) = 1
    /\ users_file = FileOf(<<>>)
    /\ load_users(users_file, <<>>) = <<>>
    /\ projects_file = call.args[2]

\* a game of tic-tac-toe at difficulty 5
ExpertGame == call.fn = "tic_tac_toe_move" /\ call.args[2] = 5

\* C24: in a game at difficulty 5 started on the empty board, whatever the
\* player plays and whatever the computer draws, the player never has three
\* in a line: check_winner never returns 'X'.
C24_ExpertNeverLoses ==
    ExpertGame => (check_winner(call.args[1]) # "X" /\ call.out # <<"X">>)

\* cell i is empty and the two other cells of one of its lines hold mark
Completes(board, i, mark) ==
    /\ board[i] = ""
    /\ \E k \in DOMAIN winning_combos :
         LET combo == winning_combos[k] IN
         /\ i \in {combo[1], combo[2], combo[3]}
         /\ \A n \in 1..3 : combo[n] # i => board[combo[n]] = mark

\* what the cell returned for board must be, by the order of preference
Preferred(board, move) ==
    IF available(board) = {} THEN move = NoMove
    ELSE IF \E i \in Cells : Completes(board, i, "O") THEN Completes(board, move, "O")
    ELSE IF \E i \in Cells : Completes(board, i, "X") THEN Completes(board, move, "X")
    ELSE IF board[4] = "" THEN move = 4
    ELSE IF \E i \in {0, 2, 6, 8} : board[i] = "" THEN move \in {0, 2, 6, 8} /\ board[move] = ""
    ELSE move \in available(board)

StrategicReturned == call.fn = "get_strategic_move" /\ call.out # <<>>

\* C25 as stated, for every list of 9 cells: the cell returned is empty
\* (None only on a full board), completes a line for O if a cell does, else
\* blocks a line of X if a cell does, else is the centre, else a corner,
\* else any empty cell; and the list is as it was.
C25_StrategicAnyBoard ==
    StrategicReturned =>
       /\ Preferred(call.args[1], call.out[1].move)
       /\ call.out[1].board = call.args[1]

\* C25: the same for every list of 9 cells on which no line is complete,
\* which are the boards of a game that goes on.
C25_StrategicMove ==
    (StrategicReturned /\ check_winner(call.args[1]) = NoWinner) =>
       /\ Preferred(call.args[1], call.out[1].move)
       /\ call.out[1].board = call.args[1]

\* on a board in play a cell would block X and a later cell completes a line
\* for O: the later cell is returned, and the board is as it was
C25_Witness ==
    /\ StrategicReturned
    /\ check_winner(call.args[1]) = NoWinner
    /\ \E i \in Cells : i < call.out[1].move /\ Completes(call.args[1], i, "X")
    /\ Completes(call.args[1], call.out[1].move, "O")
    /\ call.out[1].board = call.args[1]

\* the requests that check_rate_limit answered with True
Allowed == {r \in Requests : call.requests[r].result = "True"}

\* C26: of the calls of check_rate_limit for one key at most limit return
\* True, however the cache reads and writes of concurrent calls interleave.
C26_RateLimit ==
    call.fn = "check_rate_limit" => Cardinality(Allowed) <= call.args[1]

\* C27: after any sequence of insert and pop on an AdvancedQueue with
\* max_size >= 0 the queue holds between 0 and max_size items; the values
\* popped so far followed by the items still stored are the values stored
\* so far, in the order they were inserted; insert on a full queue raises
\* QueueOutOfRangeException and pop on an empty queue returns None, and
\* both leave the items as they are.
C27_QueueBoundedFifo ==
    call.fn = "AdvancedQueue" =>
       /\ Len(queue.items) \in 0..queue.max_size
       /\ call.popped \o queue.items = call.inserted
       /\ Len(queue.items) = queue.max_size =>
            \A value \in QueueValues :
               insert(queue, value) = [q |-> queue, result |-> "QueueOutOfRangeException"]
       /\ Len(queue.items) < queue.max_size =>
            \A value \in QueueValues : insert(queue, value).result = "None"
       /\ queue.items = <<>> => pop(queue) = [q |-> queue, result |-> "None"]

\* a queue of two places is full again after values were popped, it holds
\* two different values, and the insert just tried was refused
C27_Witness ==
    /\ call.fn = "AdvancedQueue"
    /\ queue.max_size = 2
    /\ Len(queue.items) = 2
    /\ queue.items[1] # queue.items[2]
    /\ call.popped # <<>>
    /\ call.out = <<"QueueOutOfRangeException">>

\* C28: a confirmed delete_user_project() removes the project selected, the
\* k-th of the current user in list order, and leaves the others in their
\* order: the list afterwards is the list before without that position,
\* also when another project of the list equals the selected one.
C28_DeleteExactlySelected ==
    LoggedIn =>
      \A sel \in SelectInputs :
        Selected(sel) # {} =>
          \E i \in Selected(sel) :
             delete_user_project(cur, sel, <<"y">>).st.projects_data
               = RemoveAt(projects_data, i)

\* C29: in every state of the CLI a pointer that is set is the key of a
\* user of the registry who is active; so get_current_user() returns None
\* exactly when the pointer is None, and at the menu the logged-in menu is
\* the one shown exactly when the pointer is set.
C29_PointerIsActiveUser ==
    /\ current_user_email # None => ActiveEmail(current_user_email)
    /\ (get_current_user(cur) = None) <=> (current_user_email = None)
    /\ AtMenu =>
         /\ (\E ch \in MenuInputs : UserTurn(strip(ch))) <=> (current_user_email # None)
         /\ (\E ch \in MenuInputs : GuestTurn(strip(ch))) <=> (current_user_email = None)

\* the second user registered is logged in, both accounts are active and
\* there is no project
C29_Witness ==
    /\ LoggedIn
    /\ Len(users_data) = 2
    /\ current_user_email = EmailB
    /\ users_data[1].email = EmailA /\ users_data[1].is_active
    /\ get_current_user(cur) = <<users_data[2]>>
    /\ projects_data = <<>>

\* C30: starting from empty registries, after any sequence of CLI
\* operations, exit with save and restart with load included, the
\* owner_email of every project is the key of a user of the registry and
\* that user is active: no project is left without its owner.
C30_OwnersAreActiveUsers ==
    \A i \in DOMAIN projects_data : ActiveEmail(projects_data[i].owner_email)

\* after a restart nobody is logged in, the registries are those of the
\* files, and the two projects loaded belong to two different users
C30_Witness ==
    /\ AtMenu /\ Guest
    /\ Len(projects_data) = 2
    /\ projects_data[1].owner_email # projects_data[2].owner_email
    /\ users_file.exists /\ projects_file.exists
    /\ load_users(users_file, <<>>) = users_data
    /\ Len(projects_file.lines) = 2

====
